---- MODULE Spec2Model ----
(***************************************************************************)
(* AgentWatch: the review queue (packages/vscode-extension/src/review/     *)
(* reviewQueue.ts), the review engine (review/reviewEngine.ts: reviewFile, *)
(* reviewFiles, runAgentLoop and parseResponse), the file watcher          *)
(* (watchers/fileWatcher.ts) and the extension's arm, disarm, clearReview  *)
(* and handleBatchReady (extension.ts) as state machines.                  *)
(*                                                                         *)
(* The module-level variables of reviewQueue.ts are the model's variables. *)
(* The JavaScript runtime is modelled by a clock (now), the set of live    *)
(* one-shot timers (timers), the set of live interval timers (intervals)   *)
(* and the suspended runFlush coroutines (flights), each waiting on the    *)
(* promise of one getFileDiff call.  A timer fires exactly when it is due: *)
(* the clock never passes a due timer.  A getFileDiff promise settles at   *)
(* any later moment with any outcome of the collaborator: a diff string,   *)
(* the empty string, null, or a rejection.                                 *)
(*                                                                         *)
(* A call of runAgentLoop is modelled by its local variables and by pc,    *)
(* the await it is suspended at; the model, the tools and the holder of    *)
(* the cancellation token are its environment.                             *)
(*                                                                         *)
(* Variables after a blank line in the VARIABLES list are observers: they  *)
(* record what happened and are never read by the modelled code.           *)
(*                                                                         *)
(* Spec is the whole machine.  SpecFlush, SpecSession, SpecOverlap,        *)
(* SpecCancel, SpecTimed, SpecCountdown, SpecTicks and SpecScenario are    *)
(* the queue under narrower environments; SpecAgent and SpecAgentFair are  *)
(* the agent loop, SpecReview is reviewFile with callLLM and the agent     *)
(* loop, and SpecTools and SpecParse are executeToolCall and parseResponse *)
(* applied to the arguments drawn by their initial states.  SpecSweep is   *)
(* reviewFiles over reviewFile; SpecDebounce and SpecHeuristic are the     *)
(* file watcher; SpecArming and SpecBatches are the extension.             *)
(***************************************************************************)
EXTENDS Integers, Sequences, FiniteSets

VARIABLES
    now,                \* Date.now(), in milliseconds
    minIntervalMs,      \* reviewQueue.ts:27
    pendingFiles,       \* reviewQueue.ts:30, a Set in insertion order
    lastReviewAt,       \* reviewQueue.ts:33
    reviewedDiffHash,   \* reviewQueue.ts:39, Undefined where the Map has no entry
    flushTimer,         \* reviewQueue.ts:42, a timer handle or NoHandle
    countdownInterval,  \* reviewQueue.ts:54, an interval handle or NoHandle
    onBatchReady,       \* reviewQueue.ts:45, TRUE when a callback is registered
    onCountdown,        \* reviewQueue.ts:48
    onBatchEmpty,       \* reviewQueue.ts:51
    timers,             \* live setTimeout timers of the runtime
    intervals,          \* live setInterval timers of the runtime
    flights,            \* suspended runFlush executions, oldest first

    enqueued,           \* files enqueued since the last flush start, cancel or reset
    dispatched,         \* per file, the diff of its last dispatch in this session
    priorDispatch,      \* per file, the diff of its last dispatch in the session
                        \* before, until a flush of this session reads its diff
                        \* or the file is handed to batch-ready again
    cancelledAfter,     \* files whose last dispatch in this session came before
                        \* a cancelPending
    prevFlushAt,        \* start time of the previous flush, 0 after reset
    sched,              \* the scheduling decision behind the live flush timer
    lastReadyAt,        \* time of the last batch-ready dispatch, NoTime if none
    serial,             \* no two flushes have been in progress together
    steady,             \* the interval of the session's flushes never changed
    nEnqueued,          \* enqueueFile calls so far
    ev,                 \* the step just taken

    \* reviewEngine.ts, runAgentLoop (lines 304-366)
    pc,                 \* where the runAgentLoop call stands
    cancelToken,        \* reviewEngine.ts:310
    messages,           \* reviewEngine.ts:312
    iteration,          \* reviewEngine.ts:317
    textParts,          \* reviewEngine.ts:322
    toolCallParts,      \* reviewEngine.ts:323
    toolResults,        \* reviewEngine.ts:350
    toolIndex,          \* position of the for loop of reviewEngine.ts:351
    returned,           \* what the call returned
    workspace,          \* the workspace the tools of the call work on

    sendRequests,       \* model.sendRequest calls so far
    executed,           \* executeToolCall calls so far, with their arguments
    responses,          \* the responses of the model so far
    cancelledAt,        \* where the call stood when cancellation was requested

    \* reviewEngine.ts, reviewFile and callLLM (lines 192-212, 271-292)
    review,             \* where the reviewFile call stands, and its locals

    \* one call of executeToolCall (reviewEngine.ts:484-500) on its own
    tool,               \* its arguments, the workspace and how it settled

    \* one call of parseResponse (reviewEngine.ts:377-405) on its own
    parseCall,          \* its arguments and what it returned

    \* reviewEngine.ts, reviewFiles (lines 223-245)
    sweep,              \* where the reviewFiles call stands, and its locals

    \* watchers/fileWatcher.ts (unnamed/part_004:148-350)
    recentSaves,        \* part_004:182, times of the changes counted
    debounceTimers,     \* part_004:185, per file when its timer is due,
                        \* NoTime where the Map has no entry
    heuristicThreshold, \* part_004:188
    heuristicWindowMs,  \* part_004:189
    onFileReadyCallback,    \* part_004:192, TRUE when a callback is set
    onHeuristicArmCallback, \* part_004:193
    watcherDisposable,  \* part_004:196, the session it disposes of
    listeners,          \* the sessions whose listeners the host still calls

    changes,            \* per file, the time of its last change event and
                        \* the events since its last callback or the last
                        \* stopWatching
    forwarded,          \* the changes forwarded since the heuristic last
                        \* fired, each with its time and file
    watchCount,         \* change events, clock steps and sessions so far
    wev,                \* the step the watcher just took

    \* extension.ts (unnamed/part_000)
    statusBarState,     \* what statusBar.getState() returns
    surface,            \* per file, the issues the surface shows
    reviewCancellation, \* part_000:29, a token source or NoSource
    tokenSources,       \* the CancellationTokenSources created so far
    currentWatchDisposable, \* part_000:131, a session or NoSession
    arms,               \* the arm calls in flight, per await
    handlers,           \* the handleBatchReady calls, oldest first

    xev                 \* the step the extension just took

queueVars == <<now, minIntervalMs, pendingFiles, lastReviewAt, reviewedDiffHash,
          flushTimer, countdownInterval, onBatchReady, onCountdown,
          onBatchEmpty, timers, intervals, flights,
          enqueued, dispatched, priorDispatch, cancelledAfter, prevFlushAt,
          sched,
          lastReadyAt,
          serial, steady, nEnqueued, ev>>

engineVars == <<pc, workspace, cancelToken, messages, iteration, textParts, toolCallParts,
                toolResults, toolIndex, returned, sendRequests, executed,
                responses, cancelledAt>>

watcherVars == <<recentSaves, debounceTimers, heuristicThreshold,
                 heuristicWindowMs, onFileReadyCallback,
                 onHeuristicArmCallback, watcherDisposable, listeners,
                 changes, forwarded, watchCount, wev>>

extensionVars == <<statusBarState, surface, reviewCancellation, tokenSources,
                   currentWatchDisposable, arms, handlers, xev>>

hostVars == <<sweep, watcherVars, extensionVars>>

callVars == <<review, tool, parseCall, hostVars>>

vars == <<queueVars, engineVars, callVars>>

---------------------------------------------------------------------------
(* Bounds of the exploration *)

MaxTicks == 2
MaxEnqueues == 3
SessionEnqueues == 3
OverlapEnqueues == 4
TimedEnqueues == 2
CountdownEnqueues == 2
ScenarioEnqueues == 3
MaxChanges == 3
MaxElapses == 3
MaxSessions == 2
HeuristicChanges == 4
HeuristicElapses == 3
MaxSweepFiles == 2
MaxArms == 2
MaxHandlers == 2
MaxToolRounds == 1

(* Program constants *)

DefaultMinIntervalMs == 30000
CountdownPeriodMs == 1000
HashSeed == 5381
HashMultiplier == 31
HashRadix == 36
DEBOUNCE_MS == 300
DefaultHeuristicThreshold == 3
DefaultHeuristicWindowMs == 10000

(* Inputs *)

\* The clock of the model moves in steps of one countdown period.
TickStep == CountdownPeriodMs
MaxTime == MaxTicks * TickStep

Files == {"a.ts", "b.ts"}
IntervalChoices == {0, TickStep}
CountdownChoices == {TickStep, 2 * TickStep}
TickChoices == {TickStep, (3 * TickStep) \div 2, 2 * TickStep}
NotGiven == -1              \* configure({}) : minIntervalMs is undefined

\* Diff texts as sequences of UTF-16 code units.
DiffPlusA == <<97, 43>>     \* "a+"
DiffCE == <<99, 101>>       \* "ce", same hashDiff as "a+"
DiffMinusA == <<97, 45>>    \* "a-"
DiffTexts == {DiffPlusA, DiffCE, DiffMinusA}

NoHandle == -1              \* undefined in flushTimer / countdownInterval
NoTime == 0 - 1             \* no time: below every value of the clock
Undefined == <<>>

\* A workspace: whether a folder is open, and whether fs.readFile, findFiles
\* and fs.readDirectory resolve
Workspace(folders, readsFile, findsFiles, readsDirectory) ==
    [folders |-> folders, readFile |-> readsFile, findFiles |-> findsFiles,
     readDirectory |-> readsDirectory]
AllResolve == Workspace(TRUE, TRUE, TRUE, TRUE)

\* No call of a function taken on its own
NoCall == [called |-> FALSE]

\* The files of the workspace that the watcher sees change
WatchedFiles == {"a.ts", "b.ts", "c.ts"}

\* No watcher session: watcherDisposable is undefined
NoSession == 0

\* Per file: no change event yet
NoChange == [last |-> NoTime, n |-> 0]

\* The step the watcher took: the operation, its file, whether the
\* file-ready callback and the heuristic callback were called, and the
\* change events the callback stands for
Wev(op) == [op |-> op, file |-> "", ready |-> FALSE, armed |-> FALSE,
            n |-> 0]

\* reviewCancellation when it is undefined
NoSource == 0

\* A handleBatchReady call: its number, where it stands, its argument, the
\* index of its for loop, the token source it created, and of the review
\* it awaits the token, the await it stands at and the iteration of its
\* agent loop.  Observers: started, the reviews it started, and added, its
\* addFileIssues calls.
NoHandler == [id |-> 0, pc |-> "reviewFile", filePaths |-> <<>>, index |-> 0,
              source |-> NoSource, token |-> NoSource, stage |-> "",
              iteration |-> 0, started |-> <<>>, added |-> <<>>]

\* The step the extension took: the operation, the handler it resumed,
\* whether the review it awaited was cut at the cancellation check, and the
\* sessions whose listeners were registered when startWatching was called
Xev(op) == [op |-> op, handler |-> 0, cut |-> FALSE, live |-> {}]

Str(s) == [kind |-> "str", s |-> s]
Null == [kind |-> "null", s |-> <<>>]
Throw == [kind |-> "throw", s |-> <<>>]
NoDiff == [kind |-> "none", s |-> <<>>]

\* What one getFileDiff call can settle with.
DiffOutcomes == {Str(s) : s \in DiffTexts \cup {<<>>}} \cup {Null, Throw}

---------------------------------------------------------------------------
(* hashDiff, reviewQueue.ts:235-241.  A 32-bit value is kept as two 16-bit  *)
(* halves [hi, lo]: it is the bit pattern that Math.imul and ^ produce, and *)
(* h >>> 0 reads that pattern as an unsigned number.                        *)

Half == 65536

RECURSIVE XorBits(_, _, _)
XorBits(a, b, n) ==
    IF n = 0 THEN 0
    ELSE (((a % 2) + (b % 2)) % 2) + 2 * XorBits(a \div 2, b \div 2, n - 1)

\* Math.imul(h, 31): the low 32 bits of the product.
Imul(h, m) ==
    LET lo == h.lo * m
    IN  [hi |-> ((h.hi * m) + (lo \div Half)) % Half, lo |-> lo % Half]

\* h ^ c for a code unit c (0..65535): only the low half changes.
Xor(h, c) == [hi |-> h.hi, lo |-> XorBits(h.lo, c, 16)]

Digits36 == <<"0", "1", "2", "3", "4", "5", "6", "7", "8", "9", "a", "b", "c",
              "d", "e", "f", "g", "h", "i", "j", "k", "l", "m", "n", "o", "p",
              "q", "r", "s", "t", "u", "v", "w", "x", "y", "z">>

\* Number.prototype.toString(radix) of the unsigned value of h.
RECURSIVE toStringRadix(_, _)
toStringRadix(h, radix) ==
    LET qhi == h.hi \div radix
        mid == ((h.hi % radix) * Half) + h.lo
        q == [hi |-> qhi, lo |-> mid \div radix]
        d == Digits36[(mid % radix) + 1]
    IN  IF q.hi = 0 /\ q.lo = 0 THEN <<d>> ELSE Append(toStringRadix(q, radix), d)

RECURSIVE HashLoop(_, _, _)
HashLoop(h, s, i) ==
    IF i > Len(s) THEN h
    ELSE HashLoop(Xor(Imul(h, HashMultiplier), s[i]), s, i + 1)

hashDiff(s) ==
    toStringRadix(HashLoop([hi |-> HashSeed \div Half, lo |-> HashSeed % Half], s, 1),
                  HashRadix)

\* hashDiff over the texts of the model, computed once
DiffHashes == [s \in DiffTexts \cup {<<>>} |-> hashDiff(s)]

---------------------------------------------------------------------------
(* Helpers *)

Max(a, b) == IF a >= b THEN a ELSE b
Min(a, b) == IF a <= b THEN a ELSE b
Range(q) == {q[j] : j \in 1..Len(q)}
NoDuplicates(q) == \A j, k \in 1..Len(q) : q[j] = q[k] => j = k
RemoveAt(q, k) == [j \in 1..(Len(q) - 1) |-> IF j < k THEN q[j] ELSE q[j + 1]]

\* Math.floor(n / d) for n >= 0, d > 0
Floor(n, d) == n \div d

\* Math.ceil(n / d) for n >= 0, d > 0
Ceil(n, d) == (n + d - 1) \div d

\* Set.prototype.add: a Set iterates in insertion order
SetAdd(q, f) == IF f \in Range(q) THEN q ELSE Append(q, f)

\* The handle setTimeout / setInterval returns: one no live timer has
FreshHandle(S) ==
    CHOOSE h \in 0..Cardinality(S) : \A t \in S : t.id # h

\* clearTimeout / clearInterval
Clear(S, h) == {t \in S : t.id # h}

\* The scheduling of the live flush timer: when it was made, the start of
\* the flush before it, the interval then, and the last value the countdown
\* callback was given for it and when.
NoSched == [at |-> NoTime, L |-> NoTime, min |-> NoTime, cd |-> NoTime,
            cdAt |-> NoTime]

\* A diff that is the empty string or null
EmptyOrAbsent(o) == o = Null \/ o = Str(<<>>)

\* A runFlush execution: its candidates, the index of the one whose diff it
\* awaits, and its toReview list.  Observers: sent, the outcome each pushed
\* file was pushed with; clean, the candidates found without modifications;
\* win, the files enqueued in its window; cancelled, cancelledAfter when it
\* started; stale, a resetQueue came after it started.
NoFlight == [cands |-> <<>>, i |-> 0, toReview |-> <<>>, sent |-> <<>>,
             clean |-> {}, win |-> {}, cancelled |-> {}, stale |-> FALSE]

\* The record of a step: the operation, its argument, and for a flush step
\* the flush as the step left it and the scheduling that started it.
Ev(op) == [op |-> op, file |-> "", out |-> NoDiff, done |-> FALSE,
           called |-> {}, cd |-> NoTime, sched |-> NoSched, fl |-> NoFlight]

\* A cancellation token: whether cancellation is requested.  runAgentLoop
\* makes one of its own when it is given none (reviewEngine.ts:310), which
\* nobody else holds.
NoToken == [given |-> FALSE, isCancellationRequested |-> FALSE]

\* Where a call stood when cancellation was requested: the await, the
\* iteration, and the tool results of the iteration so far.
Stood(at, it, results) == [pc |-> at, iteration |-> it, results |-> results]
NotCancelled == Stood("never", 0, 0)

\* A chat model of the host, and the locals of a reviewFile call: where it
\* stands, its arguments, the model callLLM chose, and how it settled;
\* offered records what the calls of selectChatModels resolved with.
ChatModel(id, family) == [id |-> id, family |-> family]
NoModel == ChatModel("", "")
NoReview == [pc |-> "idle", filePath |-> "", token |-> NoToken,
             model |-> NoModel, issues |-> <<>>, error |-> "",
             offered |-> <<>>]

\* The locals of a reviewFiles call: where it stands, its arguments, the
\* index of the for loop, allIssues, and what it returned.  Observers:
\* started, the files whose review it started; results, how each review
\* settled; progress, the calls of onProgress; logged, the files whose
\* error it logged.
NoSweep == [pc |-> "idle", filePaths |-> <<>>, onProgress |-> FALSE,
            token |-> NoToken, index |-> 0, allIssues |-> <<>>,
            returned |-> <<>>, started |-> <<>>, results |-> <<>>,
            progress |-> <<>>, logged |-> <<>>]

---------------------------------------------------------------------------
InitMachine ==
    /\ now = 0
    /\ minIntervalMs = DefaultMinIntervalMs
    /\ pendingFiles = <<>>
    /\ lastReviewAt = 0
    /\ reviewedDiffHash = [f \in Files |-> Undefined]
    /\ flushTimer = NoHandle
    /\ countdownInterval = NoHandle
    /\ onBatchReady = FALSE
    /\ onCountdown = FALSE
    /\ onBatchEmpty = FALSE
    /\ timers = {}
    /\ intervals = {}
    /\ flights = <<>>
    /\ enqueued = {}
    /\ dispatched = [f \in Files |-> NoDiff]
    /\ priorDispatch = [f \in Files |-> NoDiff]
    /\ cancelledAfter = {}
    /\ prevFlushAt = 0
    /\ sched = NoSched
    /\ lastReadyAt = NoTime
    /\ serial = TRUE
    /\ steady = TRUE
    /\ nEnqueued = 0
    /\ ev = Ev("init")
    /\ pc = "idle"
    /\ workspace = AllResolve
    /\ cancelToken = NoToken
    /\ messages = <<>>
    /\ iteration = 0
    /\ textParts = <<>>
    /\ toolCallParts = <<>>
    /\ toolResults = <<>>
    /\ toolIndex = 0
    /\ returned = <<>>
    /\ sendRequests = 0
    /\ executed = <<>>
    /\ responses = <<>>
    /\ cancelledAt = NotCancelled
    /\ review = NoReview
    /\ sweep = NoSweep
    /\ recentSaves = <<>>
    /\ debounceTimers = [f \in WatchedFiles |-> NoTime]
    /\ heuristicThreshold = DefaultHeuristicThreshold
    /\ heuristicWindowMs = DefaultHeuristicWindowMs
    /\ onFileReadyCallback = FALSE
    /\ onHeuristicArmCallback = FALSE
    /\ watcherDisposable = NoSession
    /\ listeners = {}
    /\ changes = [f \in WatchedFiles |-> NoChange]
    /\ forwarded = <<>>
    /\ watchCount = [changes |-> 0, elapses |-> 0, sessions |-> 0]
    /\ wev = Wev("init")
    /\ statusBarState = "idle"
    /\ surface = [f \in Files |-> 0]
    /\ reviewCancellation = NoSource
    /\ tokenSources = <<>>
    /\ currentWatchDisposable = NoSession
    /\ arms = [snapshotBaseline |-> 0, loadUserInstructions |-> 0]
    /\ handlers = <<>>
    /\ xev = Xev("init")

Init ==
    /\ InitMachine
    /\ tool = NoCall
    /\ parseCall = NoCall

---------------------------------------------------------------------------
(* Public API, reviewQueue.ts:65-143 *)

\* No flush of the session is scheduled or in progress, and none has
\* called batch-ready.
Idle ==
    /\ flushTimer = NoHandle
    /\ \A k \in 1..Len(flights) : flights[k].stale
    /\ lastReadyAt = NoTime

configure(m) ==
    /\ minIntervalMs' = IF m # NotGiven THEN m ELSE minIntervalMs
    /\ steady' = (steady /\ (minIntervalMs' = minIntervalMs \/ Idle))
    /\ ev' = Ev("configure")
    /\ UNCHANGED <<engineVars, callVars, now, pendingFiles, lastReviewAt, reviewedDiffHash, flushTimer,
                   countdownInterval, onBatchReady, onCountdown, onBatchEmpty,
                   timers, intervals, flights, enqueued, dispatched, priorDispatch, cancelledAfter,
                   prevFlushAt, sched, lastReadyAt, nEnqueued, serial>>

setOnBatchReady ==
    /\ onBatchReady' = TRUE
    /\ ev' = Ev("register")
    /\ UNCHANGED <<engineVars, callVars, now, minIntervalMs, pendingFiles, lastReviewAt,
                   reviewedDiffHash, flushTimer, countdownInterval, onCountdown,
                   onBatchEmpty, timers, intervals, flights, enqueued,
                   dispatched, priorDispatch, cancelledAfter, prevFlushAt, sched, lastReadyAt, nEnqueued, serial, steady>>

setOnCountdown ==
    /\ onCountdown' = TRUE
    /\ ev' = Ev("register")
    /\ UNCHANGED <<engineVars, callVars, now, minIntervalMs, pendingFiles, lastReviewAt,
                   reviewedDiffHash, flushTimer, countdownInterval, onBatchReady,
                   onBatchEmpty, timers, intervals, flights, enqueued,
                   dispatched, priorDispatch, cancelledAfter, prevFlushAt, sched, lastReadyAt, nEnqueued, serial, steady>>

setOnBatchEmpty ==
    /\ onBatchEmpty' = TRUE
    /\ ev' = Ev("register")
    /\ UNCHANGED <<engineVars, callVars, now, minIntervalMs, pendingFiles, lastReviewAt,
                   reviewedDiffHash, flushTimer, countdownInterval, onBatchReady,
                   onCountdown, timers, intervals, flights, enqueued,
                   dispatched, priorDispatch, cancelledAfter, prevFlushAt, sched, lastReadyAt, nEnqueued, serial, steady>>

\* A stopCountdown that forgets the ticker without clearing it
countdownForgotten(ivs) ==
    /\ intervals' = ivs
    /\ countdownInterval' = NoHandle

\* stopCountdown, reviewQueue.ts:182-187, on the live intervals ivs
stopCountdown(ivs) ==
    /\ intervals' = IF countdownInterval # NoHandle
                    THEN Clear(ivs, countdownInterval) ELSE ivs
    /\ countdownInterval' = NoHandle

\* scheduleFlush without its guard
NeverScheduled == FALSE

\* The guard of scheduleFlush, reviewQueue.ts:154
AlreadyScheduled == flushTimer # NoHandle

\* The whole interval as the delay, whatever time has elapsed
FullDelay == minIntervalMs

\* The delay scheduleFlush computes, reviewQueue.ts:156-157
FlushDelay == Max(0, minIntervalMs - (now - lastReviewAt))

\* A countdown that starts from the whole interval
CountdownFromInterval ==
    IF ~AlreadyScheduled /\ FlushDelay > 0 /\ onCountdown
    THEN Ceil(minIntervalMs, CountdownPeriodMs) ELSE NoTime

\* The value scheduleFlush passes to the countdown callback at once and
\* starts the ticker from (reviewQueue.ts:159-161), NoTime when it makes no
\* such call.
CountdownStart ==
    IF ~AlreadyScheduled /\ FlushDelay > 0 /\ onCountdown
    THEN Ceil(FlushDelay, CountdownPeriodMs) ELSE NoTime

\* scheduleFlush, reviewQueue.ts:153-177
scheduleFlush ==
    IF AlreadyScheduled
    THEN UNCHANGED <<flushTimer, timers, countdownInterval, intervals, sched>>
    ELSE LET delay == FlushDelay
             ih == FreshHandle(intervals)
             th == FreshHandle(timers)
         IN  /\ IF delay > 0 /\ onCountdown
                THEN /\ intervals' = intervals \cup
                            {[id |-> ih, due |-> now + CountdownPeriodMs,
                              remaining |-> CountdownStart]}
                     /\ countdownInterval' = ih
                ELSE UNCHANGED <<intervals, countdownInterval>>
             /\ timers' = timers \cup {[id |-> th, due |-> now + delay]}
             /\ flushTimer' = th
             /\ sched' = [at |-> now, L |-> prevFlushAt, min |-> minIntervalMs,
                          cd |-> CountdownStart,
                          cdAt |-> IF CountdownStart # NoTime THEN now
                                   ELSE NoTime]

enqueueFile(f) ==
    /\ nEnqueued' = nEnqueued + 1
    /\ pendingFiles' = SetAdd(pendingFiles, f)
    /\ enqueued' = enqueued \cup {f}
    /\ scheduleFlush
    /\ ev' = [Ev("enqueueFile") EXCEPT !.file = f, !.cd = CountdownStart,
                                       !.sched = sched]
    /\ UNCHANGED <<engineVars, callVars, now, minIntervalMs, lastReviewAt, reviewedDiffHash,
                   onBatchReady, onCountdown, onBatchEmpty, flights,
                   dispatched, priorDispatch, cancelledAfter, prevFlushAt, lastReadyAt, serial, steady>>

\* A cancelPending that leaves the pending set as it is
PendingKeptAfterCancel == pendingFiles

\* cancelPending, reviewQueue.ts:118: the pending set after clear()
PendingAfterCancel == <<>>

\* cancelPending, reviewQueue.ts:117-124, on the variables of the queue
cancelPendingCall ==
    /\ pendingFiles' = PendingAfterCancel
    /\ stopCountdown(intervals)
    /\ timers' = IF flushTimer # NoHandle THEN Clear(timers, flushTimer) ELSE timers
    /\ flushTimer' = NoHandle
    /\ enqueued' = {}
    /\ sched' = NoSched
    /\ cancelledAfter' = {f \in Files : dispatched[f] # NoDiff}
    /\ ev' = [Ev("cancelPending") EXCEPT !.sched = sched, !.fl.win = enqueued]
    /\ UNCHANGED <<now, minIntervalMs, lastReviewAt, reviewedDiffHash,
                   onBatchReady, onCountdown, onBatchEmpty, flights,
                   dispatched, priorDispatch, prevFlushAt, lastReadyAt, nEnqueued, serial, steady>>

cancelPending ==
    /\ cancelPendingCall
    /\ UNCHANGED <<engineVars, callVars>>

\* A resetQueue that leaves the flush timer running
TimersKeptAfterReset == timers

\* resetQueue, reviewQueue.ts:139-142: the live timers after clearTimeout
TimersAfterReset ==
    IF flushTimer # NoHandle THEN Clear(timers, flushTimer) ELSE timers

\* resetQueue, reviewQueue.ts:130-143, on the variables of the queue
resetQueueCall ==
    /\ pendingFiles' = <<>>
    /\ reviewedDiffHash' = [f \in Files |-> Undefined]
    /\ lastReviewAt' = 0
    /\ minIntervalMs' = DefaultMinIntervalMs
    /\ onBatchReady' = FALSE
    /\ onCountdown' = FALSE
    /\ onBatchEmpty' = FALSE
    /\ stopCountdown(intervals)
    /\ timers' = TimersAfterReset
    /\ flushTimer' = NoHandle
    /\ flights' = [k \in 1..Len(flights) |-> [flights[k] EXCEPT !.stale = TRUE]]
    /\ enqueued' = {}
    /\ dispatched' = [f \in Files |-> NoDiff]
    /\ priorDispatch' = dispatched
    /\ cancelledAfter' = {}
    /\ prevFlushAt' = 0
    /\ sched' = NoSched
    /\ lastReadyAt' = NoTime
    /\ steady' = TRUE
    /\ ev' = [Ev("resetQueue") EXCEPT !.sched = sched, !.fl.win = enqueued]
    /\ UNCHANGED <<now, nEnqueued, serial>>

resetQueue ==
    /\ resetQueueCall
    /\ UNCHANGED <<engineVars, callVars>>

---------------------------------------------------------------------------
(* runFlush, reviewQueue.ts:194-226 *)

\* if (diff === null): the empty string counts as a modification
OnlyNullUnmodified(o) == o.kind = "null"

\* if (!diff), reviewQueue.ts:207: null and the empty string are falsy
NoModifications(o) == o.kind = "null" \/ (o.kind = "str" /\ o.s = <<>>)

\* The loop body without the fingerprint comparison
ClassifyIgnoringStored(o, stored) ==
    IF o.kind = "throw" THEN "error"
    ELSE IF NoModifications(o) THEN "clean"
    ELSE "new"

\* The loop body with a catch block that skips the file
ClassifyErrorAsClean(o, stored) ==
    IF o.kind = "throw" THEN "clean"
    ELSE IF NoModifications(o) THEN "clean"
    ELSE IF stored = DiffHashes[o.s] THEN "same"
    ELSE "new"

\* The body of the for loop for one candidate, reviewQueue.ts:204-218, given
\* what getFileDiff settled with and the fingerprint stored for the file:
\* "error" and "new" push the file, "new" also stores the hash.
Classify(o, stored) ==
    IF o.kind = "throw" THEN "error"
    ELSE IF NoModifications(o) THEN "clean"
    ELSE IF stored = DiffHashes[o.s] THEN "same"
    ELSE "new"

\* runFlush ending with batch-ready whatever its batch holds
FlushCallbacksAlwaysReady(toReview) ==
    IF onBatchReady THEN {"ready"}
    ELSE (IF onBatchEmpty THEN {"empty"} ELSE {})

\* The callbacks runFlush ends by invoking, reviewQueue.ts:221-225: an
\* optional call invokes nothing when no callback is registered.
FlushCallbacks(toReview) ==
    IF Len(toReview) > 0
    THEN (IF onBatchReady THEN {"ready"} ELSE {})
    ELSE (IF onBatchEmpty THEN {"empty"} ELSE {})

\* A snapshot that leaves the pending set as it is
PendingKeptAfterSnapshot == pendingFiles

\* runFlush up to its first await, reviewQueue.ts:195-205: the pending set
\* after the snapshot
PendingAfterSnapshot == <<>>

\* The flush timer's callback, reviewQueue.ts:172-176, and runFlush up to its
\* first await (reviewQueue.ts:195-205).
flushTimerFires(t) ==
    /\ t.due <= now
    /\ timers' = timers \ {t}
    /\ flushTimer' = NoHandle
    /\ stopCountdown(intervals)
    /\ sched' = NoSched
    /\ IF Len(pendingFiles) = 0
       THEN /\ ev' = Ev("flushTimer")
            /\ UNCHANGED <<pendingFiles, lastReviewAt, flights, enqueued,
                           prevFlushAt, serial>>
       ELSE LET fl == [NoFlight EXCEPT !.cands = pendingFiles, !.i = 1,
                                       !.win = enqueued,
                                       !.cancelled = cancelledAfter]
            IN  /\ flights' = Append(flights, fl)
                /\ pendingFiles' = PendingAfterSnapshot
                /\ lastReviewAt' = now
                /\ enqueued' = {}
                /\ prevFlushAt' = now
                /\ serial' = (serial /\ flights = <<>>)
                /\ ev' = [Ev("flushTimer") EXCEPT !.fl = fl, !.sched = sched]
    /\ UNCHANGED <<engineVars, callVars, now, minIntervalMs, reviewedDiffHash, onBatchReady,
                   onCountdown, onBatchEmpty, dispatched, priorDispatch, cancelledAfter, lastReadyAt,
                   steady, nEnqueued>>

\* The diffs the batch-ready callback's files were last dispatched with,
\* after flush fl handed it its batch: the diff each file was pushed with.
\* A file pushed after a failed fetch has none.
DispatchedAfter(fl) ==
    [f \in Files |->
        IF \E j \in 1..Len(fl.toReview) :
              fl.toReview[j] = f /\ fl.sent[j].kind = "str"
        THEN fl.sent[CHOOSE j \in 1..Len(fl.toReview) : fl.toReview[j] = f]
        ELSE dispatched[f]]

\* The getFileDiff promise flight k awaits settles with outcome o: runFlush
\* resumes, classifies the candidate, and runs on to its next await or to
\* its end (reviewQueue.ts:205-225).
diffSettles(k, o) ==
    LET fl == flights[k]
        f == fl.cands[fl.i]
        class == Classify(o, reviewedDiffHash[f])
        pushes == class \in {"error", "new"}
        after == [fl EXCEPT
                    !.i = fl.i + 1,
                    !.toReview = IF pushes THEN Append(fl.toReview, f)
                                 ELSE fl.toReview,
                    !.sent = IF pushes THEN Append(fl.sent, o) ELSE fl.sent,
                    !.clean = IF EmptyOrAbsent(o) THEN fl.clean \cup {f}
                              ELSE fl.clean]
        done == after.i > Len(fl.cands)
        called == IF done THEN FlushCallbacks(after.toReview) ELSE {}
    IN  /\ reviewedDiffHash' =
              IF class = "new"
              THEN [reviewedDiffHash EXCEPT ![f] = DiffHashes[o.s]]
              ELSE reviewedDiffHash
        /\ flights' = IF done THEN RemoveAt(flights, k)
                      ELSE [flights EXCEPT ![k] = after]
        /\ dispatched' = IF "ready" \in called /\ ~fl.stale
                         THEN DispatchedAfter(after) ELSE dispatched
        /\ cancelledAfter' =
              IF "ready" \in called /\ ~fl.stale
              THEN cancelledAfter \ {after.toReview[j] : j \in
                        {i \in 1..Len(after.toReview) : after.sent[i].kind = "str"}}
              ELSE cancelledAfter
        /\ priorDispatch' =
              IF ~fl.stale THEN [priorDispatch EXCEPT ![f] = NoDiff]
              ELSE IF "ready" \in called
              THEN [g \in Files |-> IF g \in Range(after.toReview) THEN NoDiff
                                    ELSE priorDispatch[g]]
              ELSE priorDispatch
        /\ lastReadyAt' = IF "ready" \in called /\ ~fl.stale THEN now
                          ELSE lastReadyAt
        /\ ev' = [Ev("diffSettles") EXCEPT !.file = f, !.out = o, !.done = done,
                                           !.called = called, !.fl = after]
        /\ UNCHANGED <<engineVars, callVars, now, minIntervalMs, pendingFiles, lastReviewAt, flushTimer,
                       countdownInterval, onBatchReady, onCountdown, onBatchEmpty,
                       timers, intervals, enqueued, prevFlushAt, sched,
                       nEnqueued, serial, steady>>

\* The countdown ticker's callback, reviewQueue.ts:162-169
countdownTicks(iv) ==
    LET remaining == iv.remaining - 1
        ticked == (intervals \ {iv}) \cup
                  {[iv EXCEPT !.remaining = remaining,
                              !.due = iv.due + CountdownPeriodMs]}
    IN  /\ iv.due <= now
        /\ IF remaining > 0
           THEN /\ intervals' = ticked
                /\ UNCHANGED countdownInterval
                /\ sched' = IF onCountdown
                            THEN [sched EXCEPT !.cd = remaining, !.cdAt = now]
                            ELSE sched
                /\ ev' = [Ev("countdownTick") EXCEPT
                            !.cd = IF onCountdown THEN remaining ELSE NoTime,
                            !.sched = sched]
           ELSE /\ stopCountdown(ticked)
                /\ UNCHANGED sched
                /\ ev' = [Ev("countdownTick") EXCEPT !.sched = sched]
        /\ UNCHANGED <<engineVars, callVars, now, minIntervalMs, pendingFiles, lastReviewAt,
                       reviewedDiffHash, flushTimer, onBatchReady, onCountdown,
                       onBatchEmpty, timers, flights, enqueued, dispatched,
                       priorDispatch, cancelledAfter, prevFlushAt, lastReadyAt,
                       nEnqueued, serial, steady>>

\* Time passes, up to the next due timer: a timer fires when it is due.
NextDue ==
    {t.due : t \in timers} \cup {iv.due : iv \in intervals}
        \cup ({debounceTimers[f] : f \in DOMAIN debounceTimers} \ {NoTime})

timePasses ==
    /\ now < MaxTime
    /\ \A d \in NextDue : d > now
    /\ LET target == Min(now + TickStep, MaxTime)
           before == {d \in NextDue : d < target}
       IN  now' = IF before = {} THEN target
                  ELSE CHOOSE d \in before : \A e \in before : d <= e
    /\ ev' = Ev("timePasses")
    /\ UNCHANGED <<engineVars, callVars, minIntervalMs, pendingFiles, lastReviewAt, reviewedDiffHash,
                   flushTimer, countdownInterval, onBatchReady, onCountdown,
                   onBatchEmpty, timers, intervals, flights, enqueued,
                   dispatched, priorDispatch, cancelledAfter, prevFlushAt, sched, lastReadyAt, nEnqueued, serial, steady>>

\* One millisecond passes after a whole number of countdown periods.
momentPasses ==
    /\ now < MaxTime
    /\ now % TickStep = 0
    /\ \A d \in NextDue : d > now
    /\ now' = now + 1
    /\ ev' = Ev("momentPasses")
    /\ UNCHANGED <<engineVars, callVars, minIntervalMs, pendingFiles, lastReviewAt, reviewedDiffHash,
                   flushTimer, countdownInterval, onBatchReady, onCountdown,
                   onBatchEmpty, timers, intervals, flights, enqueued,
                   dispatched, priorDispatch, cancelledAfter, prevFlushAt, sched,
                   lastReadyAt, nEnqueued, serial, steady>>

---------------------------------------------------------------------------
(* parseResponse, reviewEngine.ts:377-435.  A text is a sequence of        *)
(* characters: "[", "]", ",", " " (white space), "~" (a code fence, three  *)
(* backticks), "j" (the word json), "x" (any other character), and the     *)
(* JSON object literals: "H", "M", "B", "A", "T", "N", "L" and "I" are each *)
(* a whole literal; the literals F, G and K hold fences or brackets inside  *)
(* their strings, and their texts are those characters between the pieces  *)
(* of the literal around them ("F<", "F>", ...).                           *)

MAX_AGENT_ITERATIONS == 10
MaxTitleChars == 80
MaxExplanationChars == 500

ObjectChars == {"H", "M", "B", "A", "T", "N", "L", "I", "F", "G", "K"}

\* The number that JSON.parse makes of a literal beyond the range of a
\* double, such as 1e999
Infinity == 2147483647

JsonString(v) == [type |-> "string", v |-> v]
JsonNumber(tenths) == [type |-> "number", v |-> tenths]   \* in tenths
JsonAbsent == [type |-> "undefined", v |-> 0]

Chars(n, c) == [k \in 1..n |-> c]

\* What JSON.parse makes of each object literal
ObjectValue ==
    [c \in ObjectChars |->
        CASE c = "H" -> [tier |-> JsonString("high"),
                         file |-> JsonString("src/auth.ts"),
                         line |-> JsonNumber(30),
                         title |-> JsonString(Chars(3, "t")),
                         explanation |-> JsonString(Chars(4, "e"))]
          [] c = "M" -> [tier |-> JsonString("medium"),
                         file |-> JsonAbsent,
                         line |-> JsonNumber(16),
                         title |-> JsonString(Chars(MaxTitleChars + 1, "t")),
                         explanation |-> JsonString(Chars(2, "e"))]
          [] c = "B" -> [tier |-> JsonString("critical"),
                         file |-> JsonString("src/auth.ts"),
                         line |-> JsonNumber(10),
                         title |-> JsonString(Chars(1, "t")),
                         explanation |-> JsonString(Chars(1, "e"))]
          [] c = "A" -> [tier |-> JsonString("low"),
                         file |-> JsonString("src/auth.ts"),
                         line |-> JsonAbsent,
                         title |-> JsonString(Chars(1, "t")),
                         explanation |-> JsonString(Chars(1, "e"))]
          [] c = "T" -> [tier |-> JsonString("high"),
                         file |-> JsonString("src/auth.ts"),
                         line |-> JsonNumber(20),
                         title |-> JsonNumber(10),
                         explanation |-> JsonString(Chars(1, "e"))]
          [] c = "N" -> [tier |-> JsonString("low"),
                         file |-> JsonNumber(70),
                         line |-> JsonNumber(0 - 50),
                         title |-> JsonString(Chars(MaxTitleChars, "t")),
                         explanation |->
                             JsonString(Chars(MaxExplanationChars + 1, "e"))]
          [] c = "L" -> [tier |-> JsonString("low"),
                         file |-> JsonString("src/long.ts"),
                         line |-> JsonNumber(90),
                         title |-> JsonString(Chars(MaxTitleChars + 1, "t")),
                         explanation |->
                             JsonString(Chars(MaxExplanationChars + 1, "e"))]
          [] c = "I" -> [tier |-> JsonString("high"),
                         file |-> JsonString("src/auth.ts"),
                         line |-> JsonNumber(Infinity),
                         title |-> JsonString(Chars(1, "t")),
                         explanation |-> JsonString(Chars(1, "e"))]
          [] c = "F" -> [tier |-> JsonString("low"),
                         file |-> JsonString("README.md"),
                         line |-> JsonNumber(70),
                         title |-> JsonString(<<"t", "~", "t">>),
                         explanation |-> JsonString(Chars(2, "e"))]
          [] c = "G" -> [tier |-> JsonString("medium"),
                         file |-> JsonString("README.md"),
                         line |-> JsonNumber(120),
                         title |-> JsonString(<<"t", "~">>),
                         explanation |-> JsonString(<<"~", "e">>)]
          [] c = "K" -> [tier |-> JsonString("medium"),
                         file |-> JsonString("src/list.ts"),
                         line |-> JsonNumber(10),
                         title |-> JsonString(<<"t", "[", "]">>),
                         explanation |-> JsonString(Chars(2, "e"))]]

\* JSON.stringify of each object: its text, where the fences and brackets of
\* its strings stand between the pieces of the literal
ObjectText ==
    [c \in ObjectChars |->
        CASE c = "F" -> <<"F<", "~", "F>">>
          [] c = "G" -> <<"G<", "~", "G-", "~", "G>">>
          [] c = "K" -> <<"K<", "[", "]", "K>">>
          [] OTHER -> <<c>>]

\* String.prototype.trim
RECURSIVE trim(_)
trim(t) ==
    IF t = <<>> THEN t
    ELSE IF Head(t) = " " THEN trim(Tail(t))
    ELSE IF t[Len(t)] = " " THEN trim(SubSeq(t, 1, Len(t) - 1))
    ELSE t

\* The first index, from position from on, where t holds c; 0 if none
IndexOf(t, c, from) ==
    LET at == {k \in from..Len(t) : t[k] = c}
    IN  IF at = {} THEN 0 ELSE CHOOSE k \in at : \A m \in at : k <= m

LastIndexOf(t, c) ==
    LET at == {k \in 1..Len(t) : t[k] = c}
    IN  IF at = {} THEN 0 ELSE CHOOSE k \in at : \A m \in at : k >= m

\* text.match of the fence pattern, reviewEngine.ts:381-384: the
\* text between the first fence and the next one, trimmed; the text itself
\* when there are not two fences.
StripFence(t) ==
    LET open == IndexOf(t, "~", 1)
        from == IF open # 0 /\ open < Len(t) /\ t[open + 1] = "j"
                THEN open + 2 ELSE open + 1
        close == IF open = 0 THEN 0 ELSE IndexOf(t, "~", from)
    IN  IF close = 0 THEN t ELSE trim(SubSeq(t, from, close - 1))

\* text.match(/\[[\s\S]*\]/), reviewEngine.ts:387: from the first "[" to the
\* last "]", <<>> when there is no such span
ArrayMatch(t) ==
    LET open == IndexOf(t, "[", 1)
        close == LastIndexOf(t, "]")
    IN  IF open = 0 \/ close < open THEN <<>> ELSE SubSeq(t, open, close)

\* The object whose text starts at u[k], "" when none does
ObjectAt(u, k) ==
    LET here == {c \in ObjectChars :
                    /\ k + Len(ObjectText[c]) - 1 <= Len(u)
                    /\ SubSeq(u, k, k + Len(ObjectText[c]) - 1) = ObjectText[c]}
    IN  IF here = {} THEN "" ELSE CHOOSE c \in here : TRUE

\* JSON.parse: where the JSON value that starts at u[k] ends (the index after
\* it), 0 when no JSON value starts there.  u holds no white space.
RECURSIVE ValueEnd(_, _)
RECURSIVE ElementsEnd(_, _)
ValueEnd(u, k) ==
    IF k > Len(u) THEN 0
    ELSE IF ObjectAt(u, k) # "" THEN k + Len(ObjectText[ObjectAt(u, k)])
    ELSE IF u[k] # "[" THEN 0
    ELSE IF k < Len(u) /\ u[k + 1] = "]" THEN k + 2
    ELSE ElementsEnd(u, k + 1)

\* The elements of an array from u[k] on, up to its "]"
ElementsEnd(u, k) ==
    LET e == ValueEnd(u, k)
    IN  IF e = 0 \/ e > Len(u) THEN 0
        ELSE IF u[e] = "]" THEN e + 1
        ELSE IF u[e] = "," THEN ElementsEnd(u, e + 1)
        ELSE 0

NotAnIssue == [tier |-> JsonAbsent, file |-> JsonAbsent, line |-> JsonAbsent,
               title |-> JsonAbsent, explanation |-> JsonAbsent]

\* The values of the elements of a well-formed array from u[k] on, an
\* inner array being an object with none of an issue's fields
RECURSIVE Elements(_, _)
Elements(u, k) ==
    LET e == ValueEnd(u, k)
        value == IF ObjectAt(u, k) # "" THEN ObjectValue[ObjectAt(u, k)]
                 ELSE NotAnIssue
    IN  <<value>> \o (IF u[e] = "," THEN Elements(u, e + 1) ELSE <<>>)

\* A parser that takes every object of the span, well-formed or not
parseLoosely(span) ==
    [ok |-> TRUE,
     value |-> [n \in 1..Len(SelectSeq(span, LAMBDA c : c \in ObjectChars)) |->
                   ObjectValue[SelectSeq(span, LAMBDA c : c \in ObjectChars)[n]]]]

\* JSON.parse(span) of an array, reviewEngine.ts:394: its elements in order;
\* [ok |-> FALSE] when JSON.parse throws.
JsonParse(span) ==
    LET u == SelectSeq(span, LAMBDA c : c # " ")
    IN  IF u = <<>> \/ ValueEnd(u, 1) # Len(u) + 1
        THEN [ok |-> FALSE, value |-> <<>>]
        ELSE [ok |-> TRUE,
              value |-> IF u[2] = "]" THEN <<>> ELSE Elements(u, 2)]

\* A check that lets every tier through
anyTier(obj) ==
    /\ obj.tier.type = "string"
    /\ obj.line.type = "number"
    /\ obj.title.type = "string"
    /\ obj.explanation.type = "string"

\* isValidIssue, reviewEngine.ts:410-420
isValidIssue(obj) ==
    /\ obj.tier.type = "string"
    /\ obj.tier.v \in {"high", "medium", "low"}
    /\ obj.line.type = "number"
    /\ obj.title.type = "string"
    /\ obj.explanation.type = "string"

\* truncateText of utils.ts
truncateText(t, max) == IF Len(t) <= max THEN t ELSE SubSeq(t, 1, max)

\* Math.round of a number given in tenths
Round(tenths) == IF tenths = Infinity THEN Infinity ELSE (tenths + 5) \div 10

\* normalizeIssue, reviewEngine.ts:425-433
normalizeIssue(obj) ==
    [tier |-> obj.tier.v,
     file |-> IF obj.file.type = "string" THEN obj.file.v ELSE "",
     line |-> Max(1, Round(obj.line.v)),
     title |-> truncateText(obj.title.v, MaxTitleChars),
     explanation |-> truncateText(obj.explanation.v, MaxExplanationChars)]

\* parsed.filter(isValidIssue).map(normalizeIssue), reviewEngine.ts:398-400
RECURSIVE FilterMap(_)
FilterMap(objs) ==
    IF objs = <<>> THEN <<>>
    ELSE IF isValidIssue(Head(objs))
    THEN <<normalizeIssue(Head(objs))>> \o FilterMap(Tail(objs))
    ELSE FilterMap(Tail(objs))

parseResponse(responseText) ==
    LET text == StripFence(trim(responseText))
        arrayMatch == ArrayMatch(text)
        parsed == JsonParse(arrayMatch)
    IN  IF arrayMatch = <<>> THEN <<>>
        ELSE IF ~parsed.ok THEN <<>>
        ELSE FilterMap(parsed.value)

\* The calls of parseResponse taken on their own.  A call is given any text
\* of up to MaxTextLen characters, or JSON.stringify of a list of up to
\* MaxIssues objects, bare, inside a code fence with or without the word
\* json, or inside other text.
MaxTextLen == 4
MaxIssues == 2

TextChars == {"[", "]", ",", " ", "~", "j", "x", "H"}
Texts == UNION {[1..n -> TextChars] : n \in 0..MaxTextLen}
ObjectLists == UNION {[1..n -> ObjectChars] : n \in 0..MaxIssues}

RECURSIVE JoinTexts(_)
JoinTexts(list) ==
    IF list = <<>> THEN <<>>
    ELSE IF Len(list) = 1 THEN ObjectText[list[1]]
    ELSE ObjectText[list[1]] \o <<",">> \o JoinTexts(Tail(list))

\* JSON.stringify of a list of objects
stringify(list) == <<"[">> \o JoinTexts(list) \o <<"]">>

Wrap(name, before, after) == [name |-> name, before |-> before, after |-> after]
Wraps == {Wrap("bare", <<>>, <<>>),
          Wrap("json fence", <<"~", "j", " ">>, <<" ", "~">>),
          Wrap("fence", <<"~", " ">>, <<" ", "~">>),
          Wrap("text", <<"x", "x", " ">>, <<" ", "x">>)}

ParseInput(text, list, wrap) ==
    [called |-> FALSE, responseText |-> text, list |-> list, wrap |-> wrap,
     out |-> <<>>]

InitParse ==
    /\ InitMachine
    /\ tool = NoCall
    /\ parseCall \in {ParseInput(t, <<>>, "none") : t \in Texts}
                     \cup {ParseInput(w.before \o stringify(l) \o w.after,
                                      l, w.name) :
                              l \in ObjectLists, w \in Wraps}

\* parseResponse(responseText) returns
parseResponseReturns ==
    /\ ~parseCall.called
    /\ parseCall' = [parseCall EXCEPT
                        !.called = TRUE,
                        !.out = parseResponse(parseCall.responseText)]
    /\ UNCHANGED <<queueVars, engineVars, review, tool, hostVars>>

SpecParse == InitParse /\ [][parseResponseReturns]_vars

---------------------------------------------------------------------------
(* workspaceTools, reviewEngine.ts:476-605.  The input of a tool call is a *)
(* record of strings; a key it does not hold reads as Missing.  A workspace *)
(* says whether a folder is open and which of the operations of the host   *)
(* (fs.readFile, findFiles, fs.readDirectory) reject.  A result string is  *)
(* the sequence of its pieces.                                             *)

Missing == "undefined"
Input(path, query, include) ==
    [path |-> path, query |-> query, include |-> include]
NoInput == Input(Missing, Missing, Missing)

Workspaces ==
    {Workspace(f, r, s, d) : f \in BOOLEAN, r \in BOOLEAN, s \in BOOLEAN,
                             d \in BOOLEAN}

\* How a promise settles
Resolved(value) == [settled |-> "resolved", value |-> value]
Rejected(error) == [settled |-> "rejected", value |-> <<error>>]

IoError == "Error: EIO"

\* a ?? b
OrElse(a, b) == IF a = Missing THEN b ELSE a

\* reviewEngine.ts:506-526
readFile(relativePath, w) ==
    IF ~w.folders THEN Resolved(<<"Error: no workspace open">>)
    ELSE IF relativePath = "" THEN Resolved(<<"Error: path is required">>)
    ELSE IF ~w.readFile
         THEN Resolved(<<"Error reading '", relativePath, "': ", IoError>>)
         ELSE Resolved(<<"export function login() {}">>)

\* reviewEngine.ts:535-579: findFiles is awaited outside any try block
\* (line 546); a file that cannot be read is skipped (lines 565-567).
searchCode(query, include, w) ==
    IF query = "" THEN Resolved(<<"Error: query is required">>)
    ELSE IF ~w.findFiles THEN Rejected(IoError)
    ELSE IF ~w.readFile THEN Resolved(<<"No matches found for: ", query>>)
         ELSE Resolved(<<"Found 1 match(es) for '", query, "':\n",
                         "src/auth.ts:1: export function login() {}">>)

\* reviewEngine.ts:588-603
listDirectory(relativePath, w) ==
    IF ~w.folders THEN Resolved(<<"Error: no workspace open">>)
    ELSE IF ~w.readDirectory
         THEN Resolved(<<"Error listing '", relativePath, "': ", IoError>>)
         ELSE Resolved(<<"Contents of '", relativePath, "':\n", "index.ts">>)

\* reviewEngine.ts:484-500
executeToolCall(name, input, w) ==
    CASE name = "readFile" -> readFile(OrElse(input.path, ""), w)
      [] name = "searchCode" ->
             searchCode(OrElse(input.query, ""), input.include, w)
      [] name = "listDirectory" -> listDirectory(OrElse(input.path, "."), w)
      [] OTHER -> Resolved(<<"Unknown tool: ", name>>)

\* The calls of executeToolCall taken on their own: every tool name, an
\* input with each key absent, empty or given, and every workspace.
ToolNames == {"readFile", "searchCode", "listDirectory", "runShell"}
ToolInputs ==
    {Input(p, q, i) : p \in {Missing, "", "src/auth.ts"},
                      q \in {Missing, "", "login"},
                      i \in {Missing, "**/*.ts"}}

InitTools ==
    /\ InitMachine
    /\ parseCall = NoCall
    /\ tool \in {[called |-> FALSE, name |-> n, input |-> i, workspace |-> w,
                   out |-> NoCall] :
                     n \in ToolNames, i \in ToolInputs, w \in Workspaces}

\* await executeToolCall(name, input) settles
toolCallSettles ==
    /\ ~tool.called
    /\ tool' = [tool EXCEPT !.called = TRUE,
                            !.out = executeToolCall(tool.name, tool.input,
                                                    tool.workspace)]
    /\ UNCHANGED <<queueVars, engineVars, review, parseCall, hostVars>>

SpecTools == InitTools /\ [][toolCallSettles]_vars

---------------------------------------------------------------------------
(* runAgentLoop, reviewEngine.ts:304-366.  pc says where the call stands:  *)
(* "idle" before it, then the await it is suspended at ("buildSystemPrompt",*)
(* "sendRequest" with the stream of the response, "executeToolCall"), and  *)
(* "returned" or "threw" after it.                                         *)

TextPart(value) == [kind |-> "text", value |-> value, name |-> "",
                    callId |-> "", input |-> NoInput]
ToolCallPart(name, callId, input) ==
    [kind |-> "tool", value |-> <<>>, name |-> name, callId |-> callId,
     input |-> input]

\* A tool result part: the callId of the call and the text of its result
ToolResultPart(callId, result) == [callId |-> callId, content |-> result]

User(content) == [role |-> "user", content |-> content]
Assistant(content) == [role |-> "assistant", content |-> content]

\* The streams a model may answer a request with: JSON in two fragments, a
\* stream with no chunk, text without JSON, one tool call after some text,
\* and two tool calls around some text, the second of an unknown tool.
DirectJson == <<TextPart(<<"[", "H">>), TextPart(<<",", "M", "]">>)>>
NoChunk == <<>>
PlainText == <<TextPart(<<"x">>)>>
OneToolCall ==
    <<TextPart(<<"x">>), ToolCallPart("readFile", "call-001",
                                     Input("src/utils.ts", Missing, Missing))>>
TwoToolCalls ==
    <<ToolCallPart("searchCode", "call-a", Input(Missing, "login", Missing)),
      TextPart(<<"x">>),
      ToolCallPart("runShell", "call-b", Input("ls", Missing, Missing))>>

Responses == {DirectJson, NoChunk, PlainText, OneToolCall, TwoToolCalls}

Tokens == {NoToken,
           [given |-> TRUE, isCancellationRequested |-> FALSE],
           [given |-> TRUE, isCancellationRequested |-> TRUE]}

KnownTools == {"readFile", "searchCode", "listDirectory"}

\* The workspaces a review runs in: every operation resolves, no file can
\* be read, or the file search rejects.
AgentWorkspaces == {AllResolve, Workspace(TRUE, FALSE, TRUE, TRUE),
                    Workspace(TRUE, TRUE, FALSE, TRUE)}

\* textParts.map((p) => p.value) joined the other way round
RECURSIVE JoinReversed(_)
JoinReversed(parts) ==
    IF parts = <<>> THEN <<>>
    ELSE JoinReversed(Tail(parts)) \o Head(parts).value

\* textParts.map((p) => p.value).join(''), reviewEngine.ts:335
RECURSIVE Join(_)
Join(parts) ==
    IF parts = <<>> THEN <<>>
    ELSE Head(parts).value \o Join(Tail(parts))

\* A loop with one iteration too many
OneMoreIteration(it) == it <= MAX_AGENT_ITERATIONS

\* The condition of the for loop, reviewEngine.ts:317
LoopCondition(it) == it < MAX_AGENT_ITERATIONS

\* A loop that never looks at the cancellation token
continueUncancelled(it) ==
    /\ iteration' = it
    /\ IF LoopCondition(it)
       THEN /\ pc' = "sendRequest"
            /\ sendRequests' = sendRequests + 1
            /\ UNCHANGED returned
       ELSE /\ pc' = "returned"
            /\ returned' = <<>>
            /\ UNCHANGED sendRequests

\* The head of the for loop and its body up to the await of sendRequest,
\* reviewEngine.ts:317-320, and what follows the loop (lines 364-365), for
\* the iteration counter at it.
continueLoop(it) ==
    /\ iteration' = it
    /\ IF LoopCondition(it) /\ ~cancelToken.isCancellationRequested
       THEN /\ pc' = "sendRequest"
            /\ sendRequests' = sendRequests + 1
            /\ UNCHANGED returned
       ELSE /\ pc' = "returned"
            /\ returned' = <<>>
            /\ UNCHANGED sendRequests

\* runAgentLoop is called, with or without a token, and awaits
\* buildSystemPrompt (reviewEngine.ts:309-310).
enterLoop(token) ==
    /\ pc = "idle"
    /\ pc' = "buildSystemPrompt"
    /\ cancelToken' = token
    /\ cancelledAt' = IF token.isCancellationRequested
                      THEN Stood("idle", 0, 0) ELSE NotCancelled
    /\ \E w \in AgentWorkspaces : workspace' = w
    /\ UNCHANGED <<messages, iteration, textParts, toolCallParts,
                   toolResults, toolIndex, returned, sendRequests, executed,
                   responses>>

\* runAgentLoop called on its own
runAgentLoop(token) ==
    /\ enterLoop(token)
    /\ UNCHANGED <<queueVars, callVars>>

\* buildSystemPrompt resolved: the two opening messages and the first
\* iteration (reviewEngine.ts:312-320).
promptBuilt ==
    /\ pc = "buildSystemPrompt"
    /\ messages' = <<User(<<"systemPrompt">>), User(<<"userPrompt">>)>>
    /\ continueLoop(0)
    /\ UNCHANGED <<queueVars, callVars, workspace, cancelToken, textParts, toolCallParts,
                   toolResults, toolIndex, executed, responses, cancelledAt>>

\* The holder of the token requests cancellation.
cancellationRequested ==
    /\ pc \in {"buildSystemPrompt", "sendRequest", "executeToolCall"}
    /\ cancelToken.given
    /\ ~cancelToken.isCancellationRequested
    /\ cancelToken' = [cancelToken EXCEPT !.isCancellationRequested = TRUE]
    /\ cancelledAt' = Stood(pc, iteration, Len(toolResults))
    /\ UNCHANGED <<queueVars, callVars, workspace, pc, messages, iteration,
                   textParts,
                   toolCallParts, toolResults, toolIndex, returned,
                   sendRequests, executed, responses>>

\* The tool calls ahead of the text
toolCallsFirst(texts, tools) == tools \o texts

\* [...textParts, ...toolCallParts], reviewEngine.ts:346
assistantContent(texts, tools) == texts \o tools

\* The call executeToolCall(toolCall.name, input) of reviewEngine.ts:352-353
ToolCall(part) == [name |-> part.name, input |-> part.input]

\* sendRequest resolved and its stream ended with the chunks r
\* (reviewEngine.ts:320-330): the loop returns the parsed text when r holds
\* no tool call (lines 333-338), and else pushes the assistant message and
\* calls the first tool (lines 346-353).
modelResponds(r) ==
    LET texts == SelectSeq(r, LAMBDA c : c.kind = "text")
        tools == SelectSeq(r, LAMBDA c : c.kind = "tool")
    IN  /\ pc = "sendRequest"
        /\ responses' = Append(responses, r)
        /\ textParts' = texts
        /\ toolCallParts' = tools
        /\ IF Len(tools) = 0
           THEN /\ pc' = "returned"
                /\ returned' = parseResponse(Join(texts))
                /\ UNCHANGED <<messages, toolResults, toolIndex, executed>>
           ELSE /\ pc' = "executeToolCall"
                /\ messages' = Append(messages,
                                      Assistant(assistantContent(texts,
                                                                 tools)))
                /\ toolResults' = <<>>
                /\ toolIndex' = 1
                /\ executed' = Append(executed, ToolCall(tools[1]))
                /\ UNCHANGED returned
        /\ UNCHANGED <<queueVars, callVars, workspace, cancelToken, iteration, sendRequests,
                       cancelledAt>>

\* sendRequest, or the stream of its response, rejects: so does runAgentLoop.
modelFails ==
    /\ pc = "sendRequest"
    /\ pc' = "threw"
    /\ UNCHANGED <<queueVars, callVars, workspace, cancelToken, messages, iteration, textParts,
                   toolCallParts, toolResults, toolIndex, returned,
                   sendRequests, executed, responses, cancelledAt>>

\* executeToolCall resolved with result (reviewEngine.ts:353-360): the next
\* tool is called, or the results are pushed and the next iteration begins
\* (lines 362, 317-320).
toolReturns(result) ==
    LET results == Append(toolResults,
                          ToolResultPart(toolCallParts[toolIndex].callId, result))
    IN  /\ pc = "executeToolCall"
        /\ Resolved(result) = executeToolCall(toolCallParts[toolIndex].name,
                                              toolCallParts[toolIndex].input,
                                              workspace)
        /\ toolResults' = results
        /\ IF toolIndex < Len(toolCallParts)
           THEN /\ toolIndex' = toolIndex + 1
                /\ executed' = Append(executed,
                                      ToolCall(toolCallParts[toolIndex + 1]))
                /\ UNCHANGED <<pc, messages, iteration, returned, sendRequests>>
           ELSE /\ messages' = Append(messages, User(results))
                /\ continueLoop(iteration + 1)
                /\ UNCHANGED <<toolIndex, executed>>
        /\ UNCHANGED <<queueVars, callVars, workspace, cancelToken, textParts, toolCallParts,
                       responses, cancelledAt>>

\* executeToolCall rejected: nothing catches it in runAgentLoop (line 353),
\* which rejects too.
toolFails ==
    /\ pc = "executeToolCall"
    /\ executeToolCall(toolCallParts[toolIndex].name,
                       toolCallParts[toolIndex].input,
                       workspace).settled = "rejected"
    /\ pc' = "threw"
    /\ UNCHANGED <<queueVars, callVars, workspace, cancelToken, messages,
                   iteration, textParts, toolCallParts, toolResults,
                   toolIndex, returned, sendRequests, executed, responses,
                   cancelledAt>>

\* The tool calls of a stream
ToolCalls(r) == {r[k] : k \in {i \in 1..Len(r) : r[i].kind = "tool"}}

AllToolOutcomes ==
    {executeToolCall(c.name, c.input, w).value :
        c \in UNION {ToolCalls(r) : r \in Responses}, w \in AgentWorkspaces}

NextAgent ==
    \/ \E token \in Tokens : runAgentLoop(token)
    \/ promptBuilt
    \/ cancellationRequested
    \/ \E r \in Responses : modelResponds(r)
    \/ modelFails
    \/ \E result \in AllToolOutcomes : toolReturns(result)
    \/ toolFails

SpecAgent == Init /\ [][NextAgent]_vars

\* Every awaited promise settles: buildSystemPrompt, each model request with
\* its stream, and each tool call.
SpecAgentFair ==
    /\ SpecAgent
    /\ WF_vars(promptBuilt)
    /\ WF_vars(modelFails \/ \E r \in Responses : modelResponds(r))
    /\ WF_vars(toolFails \/ \E result \in AllToolOutcomes : toolReturns(result))

---------------------------------------------------------------------------
(* reviewFile and callLLM, reviewEngine.ts:192-212 and 271-292.  review.pc  *)
(* says where the call stands: "idle" before it, then the await it is       *)
(* suspended at ("getFileDiff", "getRecentHistory", "selectFamily" and      *)
(* "selectVendor" for the two calls of selectChatModels, "runAgentLoop"),  *)
(* and "returned" or "threw" after it.                                     *)

FilePaths == {"src/changed.ts"}

\* modelFamily, reviewEngine.ts:36
ModelFamily == "gpt-4o"

\* What selectChatModels may resolve with: for the configured family, and
\* for the vendor alone
FamilyModels ==
    {<<>>, <<ChatModel("gpt-4o-a", ModelFamily)>>,
     <<ChatModel("gpt-4o-b", ModelFamily), ChatModel("gpt-4o-a", ModelFamily)>>}
VendorModels ==
    {<<>>, <<ChatModel("claude", "claude-3.5-sonnet"), ChatModel("o1", "o1")>>}

NoModelsError ==
    "No Copilot models available. Ensure GitHub Copilot is installed and active."

\* The last of the models offered
lastModel(models) == models[Len(models)]

\* models[0], reviewEngine.ts:288 and 291
firstModel(models) == models[1]

\* What getFileDiff may settle with in a review
ReviewDiffs == {Str(DiffPlusA), Str(<<>>), Null, Throw}

\* The issues as they are: the file of the model is kept
issuesAsParsed(issues, filePath) == issues

\* issues.map((issue) => ({ ...issue, file: filePath })), reviewEngine.ts:211
withFile(issues, filePath) ==
    [k \in 1..Len(issues) |-> [issues[k] EXCEPT !.file = filePath]]

\* reviewFile(filePath, token) is called and awaits getFileDiff (line 196)
reviewFile(filePath, token) ==
    /\ review.pc = "idle"
    /\ review' = [NoReview EXCEPT !.pc = "getFileDiff", !.filePath = filePath,
                                  !.token = token]
    /\ UNCHANGED <<queueVars, engineVars, tool, parseCall, hostVars>>

\* getFileDiff settled (lines 196-200): nothing catches a rejection; a falsy
\* diff ends the review with no issue; else getRecentHistory is awaited.
diffFetched(diff) ==
    /\ review.pc = "getFileDiff"
    /\ review' = IF diff.kind = "throw"
                 THEN [review EXCEPT !.pc = "threw", !.error = "getFileDiff"]
                 ELSE IF diff.kind = "null" \/ diff.s = <<>>
                 THEN [review EXCEPT !.pc = "returned", !.issues = <<>>]
                 ELSE [review EXCEPT !.pc = "getRecentHistory"]
    /\ UNCHANGED <<queueVars, engineVars, tool, parseCall, hostVars>>

\* getRecentHistory settled (line 202); callLLM then awaits
\* selectChatModels for the configured family (lines 275-278).
historyFetched(resolves) ==
    /\ review.pc = "getRecentHistory"
    /\ review' = IF resolves
                 THEN [review EXCEPT !.pc = "selectFamily"]
                 ELSE [review EXCEPT !.pc = "threw",
                                     !.error = "getRecentHistory"]
    /\ UNCHANGED <<queueVars, engineVars, tool, parseCall, hostVars>>

\* selectChatModels({vendor, family}) resolved with models (lines 275-291):
\* the first of them runs the agent loop, and when there is none
\* selectChatModels({vendor}) is awaited.
familySelected(models) ==
    /\ review.pc = "selectFamily"
    /\ IF models = <<>>
       THEN /\ review' = [review EXCEPT !.pc = "selectVendor",
                                        !.offered = <<models>>]
            /\ UNCHANGED engineVars
       ELSE /\ review' = [review EXCEPT !.pc = "runAgentLoop",
                                        !.offered = <<models>>,
                                        !.model = firstModel(models)]
            /\ enterLoop(review.token)
    /\ UNCHANGED <<queueVars, tool, parseCall, hostVars>>

\* selectChatModels({vendor}) resolved with models (lines 280-288): callLLM
\* throws when there is none, and else the first runs the agent loop.
vendorSelected(models) ==
    /\ review.pc = "selectVendor"
    /\ IF models = <<>>
       THEN /\ review' = [review EXCEPT !.pc = "threw",
                                        !.offered = Append(@, models),
                                        !.error = NoModelsError]
            /\ UNCHANGED engineVars
       ELSE /\ review' = [review EXCEPT !.pc = "runAgentLoop",
                                        !.offered = Append(@, models),
                                        !.model = firstModel(models)]
            /\ enterLoop(review.token)
    /\ UNCHANGED <<queueVars, tool, parseCall, hostVars>>

\* runAgentLoop settled: reviewFile rejects as it did, or returns its issues
\* with the path of the reviewed file (lines 208-211).
loopSettled ==
    /\ review.pc = "runAgentLoop"
    /\ pc \in {"returned", "threw"}
    /\ review' = IF pc = "threw"
                 THEN [review EXCEPT !.pc = "threw", !.error = "runAgentLoop"]
                 ELSE [review EXCEPT !.pc = "returned",
                                     !.issues = withFile(returned,
                                                         review.filePath)]
    /\ UNCHANGED <<queueVars, engineVars, tool, parseCall, hostVars>>

NextReview ==
    \/ \E filePath \in FilePaths, token \in Tokens : reviewFile(filePath, token)
    \/ \E diff \in ReviewDiffs : diffFetched(diff)
    \/ \E resolves \in BOOLEAN : historyFetched(resolves)
    \/ \E models \in FamilyModels : familySelected(models)
    \/ \E models \in VendorModels : vendorSelected(models)
    \/ loopSettled
    \/ promptBuilt
    \/ cancellationRequested
    \/ \E r \in Responses : modelResponds(r)
    \/ modelFails
    \/ \E result \in AllToolOutcomes : toolReturns(result)
    \/ toolFails

SpecReview == Init /\ [][NextReview]_vars

---------------------------------------------------------------------------
(* reviewFiles, reviewEngine.ts:223-245.  sweep.pc says where the call     *)
(* stands: "idle" before it, "reviewFile" while it awaits the review of    *)
(* filePaths[index], and "returned" or "threw" after it.  The token is one *)
(* object: the reviewFile and runAgentLoop calls of the sweep hold the     *)
(* token the sweep was given.                                              *)

\* A runAgentLoop call that has not begun: the locals of the call before
FreshLoop ==
    /\ pc' = "idle"
    /\ workspace' = AllResolve
    /\ cancelToken' = NoToken
    /\ messages' = <<>>
    /\ iteration' = 0
    /\ textParts' = <<>>
    /\ toolCallParts' = <<>>
    /\ toolResults' = <<>>
    /\ toolIndex' = 0
    /\ returned' = <<>>
    /\ sendRequests' = 0
    /\ executed' = <<>>
    /\ responses' = <<>>
    /\ cancelledAt' = NotCancelled

\* token?.isCancellationRequested, reviewEngine.ts:231
SweepCancelled(token) == token.given /\ token.isCancellationRequested

\* The head of the for loop, reviewEngine.ts:230-236, and the return after
\* it (line 244), for the locals sw: the review of the next file begins
\* unless cancellation is requested.
sweepLoop(sw) ==
    IF sw.index <= Len(sw.filePaths) /\ ~SweepCancelled(sw.token)
    THEN /\ sweep' = [sw EXCEPT !.pc = "reviewFile",
                                !.started = Append(@, sw.filePaths[sw.index])]
         /\ review' = [NoReview EXCEPT !.pc = "getFileDiff",
                                       !.filePath = sw.filePaths[sw.index],
                                       !.token = sw.token]
         /\ FreshLoop
    ELSE /\ sweep' = [sw EXCEPT !.pc = "returned", !.returned = sw.allIssues]
         /\ UNCHANGED <<review, engineVars>>

\* reviewFiles(filePaths, onProgress, token) is called
reviewFiles(filePaths, onProgress, token) ==
    /\ sweep.pc = "idle"
    /\ review.pc = "idle"
    /\ pc = "idle"
    /\ sweepLoop([NoSweep EXCEPT !.filePaths = filePaths,
                                 !.onProgress = onProgress,
                                 !.token = token, !.index = 1])
    /\ UNCHANGED <<queueVars, tool, parseCall, watcherVars, extensionVars>>

\* allIssues.push(...fileIssues), reviewEngine.ts:237
pushAll(allIssues, fileIssues) == allIssues \o fileIssues

\* An error that rejects the promise of the sweep
errorRejects(sw) ==
    /\ sweep' = [sw EXCEPT !.pc = "threw"]
    /\ UNCHANGED <<review, engineVars>>

\* The catch block of reviewEngine.ts:239-241 and the next turn of the loop
errorLogged(sw) == sweepLoop(sw)

\* The review of filePaths[index] settled (reviewEngine.ts:236-241): its
\* issues are pushed and onProgress is called, or its error is logged, and
\* the loop goes on.
fileReviewed ==
    LET filePath == sweep.filePaths[sweep.index]
        all == pushAll(sweep.allIssues, review.issues)
    IN  /\ sweep.pc = "reviewFile"
        /\ review.pc \in {"returned", "threw"}
        /\ IF review.pc = "returned"
           THEN sweepLoop([sweep EXCEPT
                    !.index = @ + 1,
                    !.allIssues = all,
                    !.results = Append(@, [file |-> filePath, ok |-> TRUE,
                                           issues |-> review.issues]),
                    !.progress = IF sweep.onProgress
                                 THEN Append(@, [issues |-> all,
                                                 file |-> filePath])
                                 ELSE @])
           ELSE errorLogged([sweep EXCEPT
                    !.index = @ + 1,
                    !.results = Append(@, [file |-> filePath, ok |-> FALSE,
                                           issues |-> <<>>]),
                    !.logged = Append(@, filePath)])
        /\ UNCHANGED <<queueVars, tool, parseCall, watcherVars, extensionVars>>

\* The holder of the token of the sweep requests cancellation
sweepCancelled ==
    /\ sweep.pc = "reviewFile"
    /\ sweep.token.given
    /\ ~sweep.token.isCancellationRequested
    /\ sweep' = [sweep EXCEPT !.token.isCancellationRequested = TRUE]
    /\ review' = [review EXCEPT !.token.isCancellationRequested = TRUE]
    /\ IF pc \in {"buildSystemPrompt", "sendRequest", "executeToolCall"}
       THEN /\ cancelToken' = [cancelToken EXCEPT
                                  !.isCancellationRequested = TRUE]
            /\ cancelledAt' = Stood(pc, iteration, Len(toolResults))
       ELSE UNCHANGED <<cancelToken, cancelledAt>>
    /\ UNCHANGED <<queueVars, tool, parseCall, watcherVars, extensionVars,
                   pc, workspace, messages, iteration, textParts, toolCallParts,
                   toolResults, toolIndex, returned, sendRequests, executed,
                   responses>>

(* A sweep over up to MaxSweepFiles files: a diff is a text or absent or   *)
(* the fetch fails, a model of the configured family is offered, and the   *)
(* model answers with JSON or with one tool call.                          *)

SweepFiles == {"a.ts", "b.ts"}
SweepPaths ==
    UNION {[1..n -> SweepFiles] : n \in 0..MaxSweepFiles}
SweepDiffs == {Str(DiffPlusA), Null, Throw}
SweepModels == {<<ChatModel("gpt-4o-a", ModelFamily)>>}
SweepResponses == {DirectJson, OneToolCall}

NextSweep ==
    \/ \E filePaths \in SweepPaths, onProgress \in BOOLEAN, token \in Tokens :
          reviewFiles(filePaths, onProgress, token)
    \/ fileReviewed
    \/ sweepCancelled
    \/ \E diff \in SweepDiffs : diffFetched(diff)
    \/ historyFetched(TRUE)
    \/ \E models \in SweepModels : familySelected(models)
    \/ loopSettled
    \/ promptBuilt
    \/ \E r \in SweepResponses : modelResponds(r)
    \/ modelFails
    \/ \E result \in AllToolOutcomes : toolReturns(result)

SpecSweep == Init /\ [][NextSweep]_vars

---------------------------------------------------------------------------
(* watchers/fileWatcher.ts, unnamed/part_004:148-350.  A session is the    *)
(* set of listeners one startWatching call registers with the host (the    *)
(* save listener and the change and create listeners of the file system    *)
(* watcher); the host calls the listeners of every session that is not     *)
(* disposed of.  A debounce timer fires exactly when it is due.            *)

\* What a listener is called with: a file of a workspace folder, or a file
\* outside of every folder
Uri(inFolder, relative) == [folder |-> inFolder, relative |-> relative]

\* configure, part_004:203-209, with NotGiven for an option left out
configureHeuristic(threshold, window) ==
    /\ heuristicThreshold' = IF threshold # NotGiven THEN threshold
                             ELSE heuristicThreshold
    /\ heuristicWindowMs' = IF window # NotGiven THEN window
                            ELSE heuristicWindowMs
    /\ wev' = Wev("configure")
    /\ UNCHANGED <<recentSaves, debounceTimers, onFileReadyCallback,
                   onHeuristicArmCallback, watcherDisposable, listeners,
                   changes, forwarded, watchCount>>

\* startWatching, part_004:220-247: the callbacks are stored, the listeners
\* of a new session are registered and its disposable is kept
startWatchingCall(onHeuristicArm) ==
    LET session == watchCount.sessions + 1
    IN  /\ onFileReadyCallback' = TRUE
        /\ onHeuristicArmCallback' = onHeuristicArm
        /\ listeners' = listeners \cup {session}
        /\ watcherDisposable' = session
        /\ watchCount' = [watchCount EXCEPT !.sessions = session]
        /\ wev' = Wev("startWatching")
        /\ UNCHANGED <<recentSaves, debounceTimers, heuristicThreshold,
                       heuristicWindowMs, changes, forwarded>>

\* watcherDisposable?.dispose(), part_004:238-243 and 253
Disposed(sessions, disposable) == sessions \ {disposable}

\* clearAllDebounceTimers, part_004:335-340
clearAllDebounceTimers == [f \in WatchedFiles |-> NoTime]

\* stopWatching, part_004:252-258
stopWatchingCall ==
    /\ listeners' = Disposed(listeners, watcherDisposable)
    /\ watcherDisposable' = NoSession
    /\ onFileReadyCallback' = FALSE
    /\ onHeuristicArmCallback' = FALSE
    /\ debounceTimers' = clearAllDebounceTimers
    /\ changes' = [f \in WatchedFiles |-> [changes[f] EXCEPT !.n = 0]]
    /\ wev' = Wev("stopWatching")
    /\ UNCHANGED <<recentSaves, heuristicThreshold, heuristicWindowMs,
                   forwarded, watchCount>>

\* resolveRelativePath, part_004:301-311: undefined for a file outside of
\* every workspace folder
resolveRelativePath(uri) == IF uri.folder THEN uri.relative ELSE Missing

\* A timer that is left as it is when one is live for the file
FirstEventDue(existing) ==
    IF existing # NoTime THEN existing ELSE now + DEBOUNCE_MS

\* When the timer scheduleHandle leaves behind is due, part_004:270-279:
\* the live timer of the file is cleared and a new one is set
DebounceDue(existing) == now + DEBOUNCE_MS

\* scheduleHandle, part_004:265-280, called by a listener for uri; every
\* file of the workspace is one shouldReviewFile accepts
scheduleHandle(uri) ==
    LET filePath == resolveRelativePath(uri)
    IN  IF filePath = Missing
        THEN UNCHANGED <<debounceTimers, changes>>
        ELSE /\ debounceTimers' =
                   [debounceTimers EXCEPT
                       ![filePath] = DebounceDue(debounceTimers[filePath])]
             /\ changes' = [changes EXCEPT
                               ![filePath] = [last |-> now, n |-> @.n + 1]]

\* A file is saved in the editor or written on disk: the host calls the
\* listeners that are registered
fileChangesCall(uri) ==
    /\ listeners # {}
    /\ scheduleHandle(uri)
    /\ watchCount' = [watchCount EXCEPT !.changes = @ + 1]
    /\ wev' = [Wev("fileChanges") EXCEPT !.file = uri.relative]
    /\ UNCHANGED <<recentSaves, heuristicThreshold, heuristicWindowMs,
                   onFileReadyCallback, onHeuristicArmCallback,
                   watcherDisposable, listeners, forwarded>>

\* The test of the while loop of part_004:322 negated: the change at the
\* head of recentSaves stays
InWindow(at, cutoff) == ~(at < cutoff)

\* recentSaves after the push and the while loop, part_004:318-324
RECURSIVE Shifted(_, _)
Shifted(saves, cutoff) ==
    IF Len(saves) > 0 /\ ~InWindow(saves[1], cutoff)
    THEN Shifted(Tail(saves), cutoff) ELSE saves

\* The saves that stay after the heuristic callback was called: all of them
SavesKept(saves) == saves

\* recentSaves.length = 0, part_004:328
SavesCleared(saves) == <<>>

\* trackSaveForHeuristic, part_004:317-330
HeuristicFires(saves) ==
    Len(saves) >= heuristicThreshold /\ onHeuristicArmCallback

trackSaveForHeuristic ==
    LET saves == Shifted(Append(recentSaves, now), now - heuristicWindowMs)
    IN  recentSaves' = IF HeuristicFires(saves) THEN SavesCleared(saves)
                       ELSE saves

\* The debounce timer of filePath fires, part_004:275-278, and handleChange
\* runs (part_004:286-289)
debounceFiresCall(filePath) ==
    LET saves == Shifted(Append(recentSaves, now), now - heuristicWindowMs)
        fires == HeuristicFires(saves)
    IN  /\ debounceTimers[filePath] # NoTime
        /\ debounceTimers[filePath] <= now
        /\ debounceTimers' = [debounceTimers EXCEPT ![filePath] = NoTime]
        /\ trackSaveForHeuristic
        /\ changes' = [changes EXCEPT ![filePath].n = 0]
        /\ forwarded' = IF fires THEN <<>>
                        ELSE Append(forwarded,
                                    [at |-> now, file |-> filePath])
        /\ wev' = [Wev("debounceFires") EXCEPT
                      !.file = filePath,
                      !.ready = onFileReadyCallback,
                      !.armed = fires,
                      !.n = changes[filePath].n]
        /\ UNCHANGED <<heuristicThreshold, heuristicWindowMs,
                       onFileReadyCallback, onHeuristicArmCallback,
                       watcherDisposable, listeners, watchCount>>

\* The fileWatcher module on its own: its callbacks are the caller's
configureWatcher(threshold, window) ==
    /\ configureHeuristic(threshold, window)
    /\ UNCHANGED <<queueVars, engineVars, review, tool, parseCall, sweep,
                   extensionVars>>

startWatching(onHeuristicArm) ==
    /\ startWatchingCall(onHeuristicArm)
    /\ UNCHANGED <<queueVars, engineVars, review, tool, parseCall, sweep,
                   extensionVars>>

stopWatching ==
    /\ stopWatchingCall
    /\ UNCHANGED <<queueVars, engineVars, review, tool, parseCall, sweep,
                   extensionVars>>

fileChanges(uri) ==
    /\ fileChangesCall(uri)
    /\ UNCHANGED <<queueVars, engineVars, review, tool, parseCall, sweep,
                   extensionVars>>

debounceFires(filePath) ==
    /\ debounceFiresCall(filePath)
    /\ UNCHANGED <<queueVars, engineVars, review, tool, parseCall, sweep,
                   extensionVars>>

\* The clock moves on by d, up to the next due timer
timeElapses(d) ==
    /\ \A due \in NextDue : due > now
    /\ LET before == {due \in NextDue : due < now + d}
       IN  now' = IF before = {} THEN now + d
                  ELSE CHOOSE due \in before : \A e \in before : due <= e
    /\ watchCount' = [watchCount EXCEPT !.elapses = @ + 1]
    /\ wev' = Wev("timeElapses")
    /\ ev' = Ev("timePasses")
    /\ UNCHANGED <<engineVars, review, tool, parseCall, sweep, extensionVars,
                   minIntervalMs, pendingFiles, lastReviewAt, reviewedDiffHash, flushTimer,
                   countdownInterval, onBatchReady, onCountdown,
                   onBatchEmpty, timers, intervals, flights, enqueued,
                   dispatched, priorDispatch, cancelledAfter, prevFlushAt,
                   sched, lastReadyAt, nEnqueued, serial, steady,
                   recentSaves, debounceTimers, heuristicThreshold,
                   heuristicWindowMs, onFileReadyCallback,
                   onHeuristicArmCallback, watcherDisposable, listeners,
                   changes, forwarded>>

(* The debounce: sessions start and stop one after another, two files of the workspace and   *)
(* one outside of it change, and the clock moves by a third of the         *)
(* debounce time or by all of it.                                          *)

DebounceUris == {Uri(TRUE, "a.ts"), Uri(TRUE, "b.ts"), Uri(FALSE, "../out.ts")}
DebounceSteps == {DEBOUNCE_MS \div 3, DEBOUNCE_MS}

NextDebounce ==
    \/ /\ watchCount.sessions < MaxSessions
       /\ listeners = {}
       /\ startWatching(TRUE)
    \/ stopWatching
    \/ \E uri \in DebounceUris :
          watchCount.changes < MaxChanges /\ fileChanges(uri)
    \/ \E filePath \in WatchedFiles : debounceFires(filePath)
    \/ \E d \in DebounceSteps :
          watchCount.elapses < MaxElapses /\ timeElapses(d)

SpecDebounce == Init /\ [][NextDebounce]_vars

(* The heuristic: one session, with or without a heuristic callback, the   *)
(* defaults or a threshold of 2 and a window of ten debounce times, and a  *)
(* clock that moves by the debounce time or by what is left of the window. *)

HeuristicChoices == {NotGiven, 2}
WindowChoices == {NotGiven, 10 * DEBOUNCE_MS}
HeuristicUris == {Uri(TRUE, f) : f \in WatchedFiles}
HeuristicSteps == {DEBOUNCE_MS, heuristicWindowMs - DEBOUNCE_MS,
                   heuristicWindowMs}

NextHeuristic ==
    \/ \E threshold \in HeuristicChoices, window \in WindowChoices :
          watchCount.sessions = 0 /\ configureWatcher(threshold, window)
    \/ \E onHeuristicArm \in BOOLEAN :
          watchCount.sessions = 0 /\ startWatching(onHeuristicArm)
    \/ \E uri \in HeuristicUris :
          watchCount.changes < HeuristicChanges /\ fileChanges(uri)
    \/ \E filePath \in WatchedFiles : debounceFires(filePath)
    \/ \E d \in HeuristicSteps :
          watchCount.elapses < HeuristicElapses /\ timeElapses(d)

SpecHeuristic == Init /\ [][NextHeuristic]_vars

---------------------------------------------------------------------------
(* extension.ts, unnamed/part_000:76-255 and 343-350: arm, disarm,         *)
(* clearReview, handleBatchReady and cancelOngoingReview.  An arm call in  *)
(* flight stands at the await of snapshotBaseline (its awaits of lines     *)
(* 80-93 taken together) or at the await of loadUserInstructions.  A       *)
(* handleBatchReady call in flight stands at its await of reviewFile; of   *)
(* that review the model keeps the token it was called with, the await it  *)
(* stands at and the iteration of its agent loop.  The batches are the     *)
(* queue's: non-empty lists of distinct files, handed over while the       *)
(* queue holds the callback.  The status bar and the surface are the state *)
(* setState sets and the issues addFileIssues stores per file.             *)

\* The issues of a review, as their number
IssueCounts == {0, 1}

\* An arrow-free CancellationTokenSource: whether cancel() was called, and
\* by which caller of cancelOngoingReview
NewSource == [cancelled |-> FALSE, by |-> ""]

\* statusBar.setState
setState(state) == statusBarState' = state

\* surfaceManager.clearAll
clearAll == [f \in Files |-> 0]

\* surfaceManager.addFileIssues: the issues shown for the file
addFileIssues(shown, filePath, issues) == [shown EXCEPT ![filePath] = issues]

\* surfaceManager.getIssueCount
RECURSIVE SumOver(_, _)
SumOver(shown, fs) ==
    IF fs = {} THEN 0
    ELSE LET f == CHOOSE x \in fs : TRUE
         IN  shown[f] + SumOver(shown, fs \ {f})

getIssueCount(shown) == SumOver(shown, DOMAIN shown)

\* cancelOngoingReview, part_000:346-350, called by `by`: the sources after
\* reviewCancellation?.cancel()
Cancel(sources, by) ==
    IF reviewCancellation # NoSource
    THEN [sources EXCEPT ![reviewCancellation] =
              [cancelled |-> TRUE, by |-> by]]
    ELSE sources

cancelOngoingReview(by) ==
    /\ tokenSources' = Cancel(tokenSources, by)
    /\ reviewCancellation' = NoSource

\* arm() is called (part_000:79) and awaits
armCall ==
    /\ arms' = [arms EXCEPT !.snapshotBaseline = @ + 1]
    /\ xev' = Xev("arm")

\* The agentWatch.arm command, part_000:67
arm ==
    /\ armCall
    /\ UNCHANGED <<queueVars, engineVars, review, tool, parseCall, sweep,
                   watcherVars, statusBarState, surface, reviewCancellation,
                   tokenSources, currentWatchDisposable, handlers>>

\* onAgentStart, part_000:399-404: arms when the status is idle
onAgentStart ==
    /\ IF statusBarState = "idle"
       THEN armCall
       ELSE /\ xev' = Xev("onAgentStart")
            /\ UNCHANGED arms
    /\ UNCHANGED <<queueVars, engineVars, review, tool, parseCall, sweep,
                   watcherVars, statusBarState, surface, reviewCancellation,
                   tokenSources, currentWatchDisposable, handlers>>

\* The awaits of part_000:80-93 are over: without a folder, a repository or
\* a baseline arm returns; else it clears the surface, cancels the review,
\* resets the queue and awaits loadUserInstructions (lines 100-104).
armSnapshotTaken(ok) ==
    /\ arms.snapshotBaseline > 0
    /\ IF ok
       THEN /\ arms' = [arms EXCEPT !.snapshotBaseline = @ - 1,
                                    !.loadUserInstructions = @ + 1]
            /\ surface' = clearAll
            /\ cancelOngoingReview("arm")
            /\ resetQueueCall
            /\ xev' = Xev("armSnapshotTaken")
       ELSE /\ arms' = [arms EXCEPT !.snapshotBaseline = @ - 1]
            /\ xev' = Xev("armReturns")
            /\ UNCHANGED <<queueVars, surface, reviewCancellation,
                           tokenSources>>
    /\ UNCHANGED <<engineVars, review, tool, parseCall, sweep, watcherVars,
                   statusBarState, currentWatchDisposable, handlers>>

\* loadUserInstructions resolved, part_000:105-127: the queue is configured
\* and given its callbacks, startWatching is called and the status becomes
\* 'watching'.
armInstructionsLoaded(minWaitTimeMs) ==
    /\ arms.loadUserInstructions > 0
    /\ arms' = [arms EXCEPT !.loadUserInstructions = @ - 1]
    /\ minIntervalMs' = IF minWaitTimeMs # NotGiven THEN minWaitTimeMs
                        ELSE DefaultMinIntervalMs
    /\ steady' = (steady /\ (minIntervalMs' = minIntervalMs \/ Idle))
    /\ onBatchReady' = TRUE
    /\ onCountdown' = TRUE
    /\ onBatchEmpty' = TRUE
    /\ ev' = Ev("register")
    /\ startWatchingCall(TRUE)
    /\ currentWatchDisposable' = watcherDisposable'
    /\ setState("watching")
    /\ xev' = [Xev("armInstructionsLoaded") EXCEPT !.live = listeners]
    /\ UNCHANGED <<engineVars, review, tool, parseCall, sweep, now,
                   pendingFiles, lastReviewAt, reviewedDiffHash, flushTimer,
                   countdownInterval, timers, intervals, flights, enqueued,
                   dispatched, priorDispatch, cancelledAfter, prevFlushAt,
                   sched, lastReadyAt, nEnqueued, serial, surface,
                   reviewCancellation, tokenSources, handlers>>

\* disarm, part_000:136-144
disarm ==
    /\ stopWatchingCall
    /\ currentWatchDisposable' = NoSession
    /\ cancelOngoingReview("disarm")
    /\ resetQueueCall
    /\ setState("idle")
    /\ xev' = Xev("disarm")
    /\ UNCHANGED <<engineVars, review, tool, parseCall, sweep, surface, arms,
                   handlers>>

\* clearReview, part_000:149-155
clearReview ==
    /\ cancelOngoingReview("clearReview")
    /\ cancelPendingCall
    /\ surface' = clearAll
    /\ setState("idle")
    /\ xev' = Xev("clearReview")
    /\ UNCHANGED <<engineVars, review, tool, parseCall, sweep, watcherVars,
                   currentWatchDisposable, arms, handlers>>

\* The head of the for loop of handleBatchReady and what follows the loop,
\* part_000:229-244, for the handler h of the handlers hs about to turn to
\* filePaths[index] with the status at state.  The loop reads the module-level reviewCancellation:
\* reading the token of undefined throws, which the catch turns into the
\* status 'watching'.
handlerLoop(hs, h, index, state) ==
    LET source == reviewCancellation'
        more == index <= Len(h.filePaths)
        throws == more /\ source = NoSource
    IN  IF more /\ source # NoSource /\ ~tokenSources'[source].cancelled
        THEN /\ handlers' = [hs EXCEPT ![h.id] =
                    [h EXCEPT !.pc = "reviewFile", !.index = index,
                              !.token = source, !.stage = "getFileDiff",
                              !.iteration = 0,
                              !.started = Append(@,
                                  [file |-> h.filePaths[index],
                                   token |-> source,
                                   newer |-> Len(hs) > h.id])]]
             /\ setState(state)
        ELSE /\ handlers' = [hs EXCEPT ![h.id] =
                    [h EXCEPT !.pc = IF throws THEN "threw" ELSE "done",
                              !.index = index]]
             /\ setState(IF throws THEN "watching"
                         ELSE IF getIssueCount(surface') > 0 THEN "issues"
                         ELSE "watching")

\* handleBatchReady(filePaths), part_000:219-232, up to its first await
handleBatchReady(filePaths) ==
    LET id == Len(handlers) + 1
        source == Len(tokenSources) + 1
        h == [NoHandler EXCEPT !.id = id, !.filePaths = filePaths,
                               !.source = source]
    IN  /\ onBatchReady
        /\ tokenSources' = Append(Cancel(tokenSources, "batch"), NewSource)
        /\ reviewCancellation' = source
        /\ UNCHANGED surface
        /\ handlerLoop(Append(handlers, h), h, 1, "reviewing")
        /\ xev' = [Xev("handleBatchReady") EXCEPT !.handler = id]
        /\ UNCHANGED <<queueVars, engineVars, review, tool, parseCall, sweep,
                       watcherVars, currentWatchDisposable, arms>>

\* The await of reviewFile of handler h is over, part_000:232-238 and the
\* next turn of the loop: the issues are handed to the surface.  cut says
\* that the agent loop of the review ended at its cancellation check.
reviewReturns(h, issues, cut) ==
    /\ surface' = addFileIssues(surface, h.filePaths[h.index], issues)
    /\ UNCHANGED <<reviewCancellation, tokenSources>>
    /\ handlerLoop(handlers,
                   [h EXCEPT !.added = Append(@, [file |-> h.filePaths[h.index],
                                                  cut |-> cut,
                                                  token |-> h.token])],
                   h.index + 1, statusBarState)
    /\ xev' = [Xev("reviewReturns") EXCEPT !.handler = h.id, !.cut = cut]

\* The head of the for loop of runAgentLoop, reviewEngine.ts:317-320, for
\* the review of handler h at iteration it: the next request is sent, or
\* the loop ends and the review returns no issue.
reviewLoop(h, it) ==
    IF LoopCondition(it) /\ ~tokenSources[h.token].cancelled
    THEN /\ handlers' = [handlers EXCEPT ![h.id] =
                [h EXCEPT !.stage = "sendRequest", !.iteration = it]]
         /\ xev' = [Xev("reviewLoop") EXCEPT !.handler = h.id]
         /\ UNCHANGED <<statusBarState, surface, reviewCancellation,
                        tokenSources>>
    ELSE reviewReturns(h, 0, tokenSources[h.token].cancelled)

\* The awaits of reviewFile before the agent loop are over for the review
\* of handler k (reviewEngine.ts:196-206, 275-290 and 309-316)
reviewPrepared(k) ==
    LET h == handlers[k]
    IN  /\ h.pc = "reviewFile"
        /\ h.stage = "getFileDiff"
        /\ reviewLoop(h, 0)
        /\ UNCHANGED <<queueVars, engineVars, review, tool, parseCall, sweep,
                       watcherVars, currentWatchDisposable, arms>>

\* The model answered the request of the review of handler k: with its
\* final answer, of `issues` issues, or with tool calls, after which the
\* loop turns (reviewEngine.ts:321-363)
modelAnswers(k, final, issues) ==
    LET h == handlers[k]
    IN  /\ h.pc = "reviewFile"
        /\ h.stage = "sendRequest"
        /\ IF final
           THEN reviewReturns(h, issues, FALSE)
           ELSE /\ h.iteration < MaxToolRounds
                /\ issues = 0
                /\ reviewLoop(h, h.iteration + 1)
        /\ UNCHANGED <<queueVars, engineVars, review, tool, parseCall, sweep,
                       watcherVars, currentWatchDisposable, arms>>

\* The review of handler k rejects: the catch of part_000:241-244
reviewRejects(k) ==
    LET h == handlers[k]
    IN  /\ h.pc = "reviewFile"
        /\ handlers' = [handlers EXCEPT ![k].pc = "threw"]
        /\ setState("watching")
        /\ xev' = [Xev("reviewRejects") EXCEPT !.handler = k]
        /\ UNCHANGED <<queueVars, engineVars, review, tool, parseCall, sweep,
                       watcherVars, surface, reviewCancellation, tokenSources,
                       currentWatchDisposable, arms>>

(* Arming and disarming: the commands arm, disarm and clearReview and the  *)
(* terminal's agent start, with up to MaxArms arm calls in flight.         *)

ArmWaits == {NotGiven, 0}
ArmsInFlight == arms.snapshotBaseline + arms.loadUserInstructions

NextArming ==
    \/ ArmsInFlight < MaxArms /\ arm
    \/ ArmsInFlight < MaxArms /\ onAgentStart
    \/ \E ok \in BOOLEAN : armSnapshotTaken(ok)
    \/ watchCount.sessions < MaxSessions
           /\ \E w \in ArmWaits : armInstructionsLoaded(w)
    \/ disarm
    \/ clearReview

SpecArming == Init /\ [][NextArming]_vars

(* The batches of the queue after one arm call, under disarm and           *)
(* clearReview: up to MaxHandlers batches, whose reviews take up to        *)
(* MaxToolRounds rounds of tool calls.                                     *)

Batches == {<<"a.ts">>, <<"b.ts">>, <<"a.ts", "b.ts">>}

NextBatches ==
    \/ ArmsInFlight = 0 /\ watchCount.sessions = 0 /\ arm
    \/ armSnapshotTaken(TRUE)
    \/ armInstructionsLoaded(NotGiven)
    \/ disarm
    \/ clearReview
    \/ Len(handlers) < MaxHandlers
           /\ \E filePaths \in Batches : handleBatchReady(filePaths)
    \/ \E k \in 1..Len(handlers) : reviewPrepared(k)
    \/ \E k \in 1..Len(handlers), final \in BOOLEAN, issues \in IssueCounts :
           modelAnswers(k, final, issues)
    \/ \E k \in 1..Len(handlers) : reviewRejects(k)

SpecBatches == Init /\ [][NextBatches]_vars

---------------------------------------------------------------------------
(* The whole machine *)

Next ==
    \/ \E m \in IntervalChoices \cup {NotGiven} : configure(m)
    \/ setOnBatchReady
    \/ setOnCountdown
    \/ setOnBatchEmpty
    \/ \E f \in Files : nEnqueued < MaxEnqueues /\ enqueueFile(f)
    \/ cancelPending
    \/ resetQueue
    \/ \E t \in timers : flushTimerFires(t)
    \/ \E iv \in intervals : countdownTicks(iv)
    \/ \E k \in 1..Len(flights) : \E o \in DiffOutcomes : diffSettles(k, o)
    \/ timePasses
    \/ momentPasses
    \/ NextAgent
    \/ \E filePath \in FilePaths, token \in Tokens : reviewFile(filePath, token)
    \/ \E diff \in ReviewDiffs : diffFetched(diff)
    \/ \E resolves \in BOOLEAN : historyFetched(resolves)
    \/ \E models \in FamilyModels : familySelected(models)
    \/ \E models \in VendorModels : vendorSelected(models)
    \/ loopSettled
    \/ toolCallSettles
    \/ NextSweep
    \/ NextDebounce
    \/ NextHeuristic
    \/ NextArming
    \/ NextBatches

Spec == Init /\ [][Next]_vars

(* The flush logic within one session: the clock stands still, so a flush  *)
(* runs only once the interval is configured to 0; every diff outcome is    *)
(* explored.                                                                *)

NextFlush ==
    \/ configure(0)
    \/ setOnBatchReady
    \/ setOnBatchEmpty
    \/ \E f \in Files : nEnqueued < MaxEnqueues /\ enqueueFile(f)
    \/ cancelPending
    \/ \E t \in timers : flushTimerFires(t)
    \/ \E k \in 1..Len(flights) : \E o \in DiffOutcomes : diffSettles(k, o)

SpecFlush == Init /\ [][NextFlush]_vars

(* Sessions: the queue is cancelled and reset while files are pending and   *)
(* flushes are in progress; a diff is a text or the fetch fails.            *)

SessionOutcomes == {Str(DiffPlusA), Throw}

NextSession ==
    \/ configure(0)
    \/ setOnBatchReady
    \/ \E f \in Files : nEnqueued < SessionEnqueues /\ enqueueFile(f)
    \/ cancelPending
    \/ resetQueue
    \/ \E t \in timers : flushTimerFires(t)
    \/ \E k \in 1..Len(flights) : \E o \in SessionOutcomes : diffSettles(k, o)

SpecSession == Init /\ [][NextSession]_vars

(* Overlapping flushes in one session: no cancel, no reset, the diffs are   *)
(* two texts with different hashes.                                         *)

OverlapOutcomes == {Str(DiffPlusA), Str(DiffMinusA)}

NextOverlap ==
    \/ configure(0)
    \/ setOnBatchReady
    \/ \E f \in Files : nEnqueued < OverlapEnqueues /\ enqueueFile(f)
    \/ \E t \in timers : flushTimerFires(t)
    \/ \E k \in 1..Len(flights) : \E o \in OverlapOutcomes : diffSettles(k, o)

SpecOverlap == Init /\ [][NextOverlap]_vars

(* Overlapping flushes of one session with cancelPending.                   *)

NextCancel ==
    \/ NextOverlap
    \/ cancelPending

SpecCancel == Init /\ [][NextCancel]_vars

(* The scheduling: time passes, the interval is configured to 0 or to one   *)
(* tick, and a diff is either a text or absent.                             *)

TimedOutcomes == {Str(DiffPlusA), Null}

NextTimed ==
    \/ \E m \in IntervalChoices : configure(m)
    \/ setOnBatchReady
    \/ \E f \in Files : nEnqueued < TimedEnqueues /\ enqueueFile(f)
    \/ cancelPending
    \/ resetQueue
    \/ \E t \in timers : flushTimerFires(t)
    \/ \E k \in 1..Len(flights) : \E o \in TimedOutcomes : diffSettles(k, o)
    \/ timePasses

SpecTimed == Init /\ [][NextTimed]_vars

(* The countdown: a countdown callback is registered, the interval is one   *)
(* or two ticks or the default, and every diff is the same text.            *)

CountdownOutcomes == {Str(DiffPlusA)}

NextCountdown ==
    \/ \E m \in CountdownChoices : configure(m)
    \/ setOnBatchReady
    \/ setOnCountdown
    \/ \E f \in Files : nEnqueued < CountdownEnqueues /\ enqueueFile(f)
    \/ cancelPending
    \/ resetQueue
    \/ \E t \in timers : flushTimerFires(t)
    \/ \E iv \in intervals : countdownTicks(iv)
    \/ \E k \in 1..Len(flights) : \E o \in CountdownOutcomes : diffSettles(k, o)
    \/ timePasses

SpecCountdown == Init /\ [][NextCountdown]_vars

(* One session with an interval of one countdown period, both callbacks,  *)
(* no cancellation, and enqueues that come at t = 0 or a millisecond after *)
(* a whole number of periods.                                              *)

ScenarioMoment == now = 0 \/ now % TickStep = 1

ScenarioOutcomes == {Str(DiffPlusA), Str(DiffMinusA)}

NextScenario ==
    \/ configure(TickStep)
    \/ setOnBatchReady
    \/ setOnBatchEmpty
    \/ \E f \in Files :
          nEnqueued < ScenarioEnqueues /\ ScenarioMoment /\ enqueueFile(f)
    \/ \E t \in timers : flushTimerFires(t)
    \/ \E k \in 1..Len(flights) : \E o \in ScenarioOutcomes : diffSettles(k, o)
    \/ timePasses
    \/ momentPasses

SpecScenario == Init /\ [][NextScenario]_vars

\* The countdown of one session, with an interval that is not a whole number
\* of countdown periods among the choices.
NextTicks ==
    \/ \E m \in TickChoices : configure(m)
    \/ setOnCountdown
    \/ \E f \in Files : nEnqueued < CountdownEnqueues /\ enqueueFile(f)
    \/ cancelPending
    \/ \E t \in timers : flushTimerFires(t)
    \/ \E iv \in intervals : countdownTicks(iv)
    \/ \E k \in 1..Len(flights) : \E o \in CountdownOutcomes : diffSettles(k, o)
    \/ timePasses

SpecTicks == Init /\ [][NextTicks]_vars

---------------------------------------------------------------------------
(* Claims *)

FlushStep == ev'.op = "diffSettles"
Pushed == ev'.file \in Range(ev'.fl.toReview)
Batch == ev.fl.toReview
FlushEnded == ev.op = "diffSettles" /\ ev.done

\* C1: at most one flush (a runFlush execution from its snapshot to its
\* callback) is in progress at any time.
C1_OneFlushInFlight == Len(flights) <= 1

\* C2: once a file has been dispatched with diff D, a later flush of the
\* same session that reads the same diff D for it does not push the file
\* and leaves its fingerprint as it is.
C2_SameDiffNotRedispatched ==
    [][(/\ FlushStep
        /\ ~ev'.fl.stale
        /\ ev'.out.kind = "str"
        /\ ev'.out = dispatched[ev'.file])
       => (/\ ~Pushed
           /\ reviewedDiffHash'[ev'.file] = reviewedDiffHash[ev'.file])]_vars

\* C3: a flush's batch holds each file at most once and only files
\* enqueued in the flush's window (since the previous flush start,
\* cancelPending or resetQueue).
C3_BatchUniqueFromWindow ==
    /\ \A k \in 1..Len(flights) :
          /\ NoDuplicates(flights[k].toReview)
          /\ Range(flights[k].toReview) \subseteq flights[k].win
    /\ FlushEnded => NoDuplicates(Batch) /\ Range(Batch) \subseteq ev.fl.win

\* A batch of two files is handed to batch-ready after three enqueueFile
\* calls.
C3_Witness ==
    /\ FlushEnded
    /\ "ready" \in ev.called
    /\ Len(Batch) = 2
    /\ nEnqueued = 3

\* C4: a file whose diff is the empty string or null at a flush is not in
\* that flush's batch, and the flush step leaves every fingerprint as it is.
C4_EmptyDiffSkipped ==
    [][/\ \A k \in 1..Len(flights') :
             Range(flights'[k].toReview) \cap flights'[k].clean = {}
       /\ FlushStep => Range(ev'.fl.toReview) \cap ev'.fl.clean = {}
       /\ (FlushStep /\ EmptyOrAbsent(ev'.out))
             => (~Pushed /\ reviewedDiffHash' = reviewedDiffHash)]_vars

\* A flush hands over a batch and leaves out a file that has a stored
\* fingerprint and whose diff it found empty or absent.
C4_Witness ==
    /\ FlushEnded
    /\ "ready" \in ev.called
    /\ ev.fl.clean # {}
    /\ \E f \in ev.fl.clean : reviewedDiffHash[f] # Undefined

\* C5 as stated, for a file dispatched before in a run whose flushes never
\* overlapped: a pending file whose non-empty diff differs from the diff of
\* its last dispatch is pushed and its fingerprint becomes the hash of the
\* new diff; a file whose diff is unchanged is left out.
C5_ChangedDiffDispatched ==
    [][(/\ FlushStep
        /\ serial
        /\ ev'.out.kind = "str" /\ ev'.out.s # <<>>
        /\ dispatched[ev'.file] # NoDiff)
       => IF ev'.out # dispatched[ev'.file]
          THEN Pushed /\ reviewedDiffHash'[ev'.file] = DiffHashes[ev'.out.s]
          ELSE ~Pushed]_vars

\* C5 amended: a pending file whose non-empty diff hashes to something
\* other than its stored fingerprint (or that has none) is pushed and its
\* fingerprint becomes that hash; a file whose diff hashes to the stored
\* fingerprint is left out and the fingerprint stays.
C5_ChangedHashDispatched ==
    [][(FlushStep /\ ev'.out.kind = "str" /\ ev'.out.s # <<>>)
       => IF DiffHashes[ev'.out.s] # reviewedDiffHash[ev'.file]
          THEN Pushed /\ reviewedDiffHash'[ev'.file] = DiffHashes[ev'.out.s]
          ELSE ~Pushed /\ reviewedDiffHash' = reviewedDiffHash]_vars

\* A two-file flush after both files were dispatched: one diff changed and
\* is dispatched, the other is unchanged and is left out.
C5_Witness ==
    /\ FlushEnded
    /\ serial
    /\ "ready" \in ev.called
    /\ Len(ev.fl.cands) = 2
    /\ Len(Batch) = 1
    /\ ev.fl.clean = {}
    /\ ev.fl.sent[1].kind = "str"
    /\ \A f \in Files : dispatched[f] # NoDiff

\* C6: when the diff fetch of a candidate fails, the file is pushed, no
\* fingerprint changes, and the flush goes on: it awaits the next candidate
\* with the rest of its list as it was, or, after the last candidate, ends
\* with the callback of its batch; every other flush is left as it was.
C6_FetchFailureFailsOpen ==
    [][(FlushStep /\ ev'.out = Throw)
       => /\ reviewedDiffHash' = reviewedDiffHash
          /\ \E k \in 1..Len(flights) :
                LET fl == flights[k]
                IN  /\ ev'.file = fl.cands[fl.i]
                    /\ ev'.fl.cands = fl.cands
                    /\ ev'.fl.i = fl.i + 1
                    /\ ev'.fl.toReview = Append(fl.toReview, ev'.file)
                    /\ ev'.done = (fl.i = Len(fl.cands))
                    /\ IF ev'.done
                       THEN /\ flights' = RemoveAt(flights, k)
                            /\ ev'.called = IF onBatchReady THEN {"ready"}
                                            ELSE {}
                       ELSE /\ flights' = [flights EXCEPT ![k] = ev'.fl]
                            /\ ev'.called = {}]_vars

\* A flush of two files ends with both in its batch: the first fetch
\* failed, the second read a new diff.
C6_Witness ==
    /\ FlushEnded
    /\ ev.called = {"ready"}
    /\ Len(Batch) = 2
    /\ ev.fl.sent[1] = Throw
    /\ ev.fl.sent[2].kind = "str"
    /\ reviewedDiffHash[Batch[1]] = Undefined
    /\ reviewedDiffHash[Batch[2]] # Undefined

\* C7 as stated: a flush that began with a pending file ends with exactly
\* one callback invocation, batch-ready when its batch is not empty and
\* batch-empty otherwise.
C7_ExactlyOneCallback ==
    FlushEnded =>
        ev.called = IF Len(Batch) > 0 THEN {"ready"} ELSE {"empty"}

\* C7 amended: a flush that began with a pending file ends by invoking the
\* batch-ready callback when its batch is not empty and the batch-empty
\* callback otherwise, if that callback is registered, and no other; a
\* flush timer that finds nothing pending starts no flush and leaves the
\* last-dispatch timestamp as it is.
C7_OneCallbackIfRegistered ==
    [][/\ (FlushStep /\ ev'.done)
          => ev'.called =
                IF Len(ev'.fl.toReview) > 0
                THEN (IF onBatchReady THEN {"ready"} ELSE {})
                ELSE (IF onBatchEmpty THEN {"empty"} ELSE {})
       /\ (FlushStep /\ ~ev'.done) => ev'.called = {}
       /\ (ev'.op = "flushTimer" /\ pendingFiles = <<>>)
          => /\ lastReviewAt' = lastReviewAt
             /\ flights' = flights
             /\ ev'.called = {}]_vars

\* A flush ends with the batch-empty callback while batch-ready is
\* registered too.
C7_Witness ==
    /\ FlushEnded
    /\ ev.called = {"empty"}
    /\ onBatchReady
    /\ Len(ev.fl.cands) = 2

FlushBegins == ev'.op = "flushTimer" /\ pendingFiles # <<>>
ReadyCalled == FlushStep /\ "ready" \in ev'.called /\ ~ev'.fl.stale

C9_ReadyCallsSpaced ==
    [][(ReadyCalled /\ serial /\ steady /\ lastReadyAt # NoTime)
       => now - lastReadyAt >= minIntervalMs]_vars

\* C10: at most one flush timer is live, and it is the one flushTimer
\* holds; enqueueFile while a flush is scheduled only adds the file to the
\* pending set, and neither it nor configure changes the live timer.
C10_OneTimerKeptAsScheduled ==
    [][/\ Cardinality(timers') <= 1
       /\ \A t \in timers' : t.id = flushTimer'
       /\ (flushTimer' # NoHandle) = (timers' # {})
       /\ (ev'.op = "enqueueFile" /\ flushTimer # NoHandle)
             => /\ timers' = timers /\ flushTimer' = flushTimer
                /\ pendingFiles' = SetAdd(pendingFiles, ev'.file)
       /\ (ev'.op = "configure")
             => timers' = timers /\ flushTimer' = flushTimer]_vars

\* configure changes the interval while a flush with two pending files is
\* scheduled, after time has passed since the scheduling.
C10_Witness ==
    /\ ev.op = "configure"
    /\ flushTimer # NoHandle
    /\ sched.min # minIntervalMs
    /\ sched.at < now
    /\ Len(pendingFiles) = 2

\* C11: cancelPending drops every file enqueued before it: it leaves
\* nothing pending and no flush timer live, starts and ends no flush, and
\* from then on only files enqueued after it are pending, so every flush
\* (and its batch-ready or batch-empty callback) is for files enqueued after
\* the last cancelPending, however much time passes.
C11_CancelDropsEnqueued ==
    [][/\ (ev'.op = "cancelPending")
          => /\ pendingFiles' = <<>>
             /\ timers' = {} /\ flushTimer' = NoHandle
             /\ flights' = flights
             /\ ev'.called = {}
       /\ Range(pendingFiles') \subseteq enqueued'
       /\ (timers' # {}) => (pendingFiles' # <<>>)
       /\ \A k \in 1..Len(flights') :
             Range(flights'[k].cands) \subseteq flights'[k].win
       /\ FlushStep => Range(ev'.fl.cands) \subseteq ev'.fl.win]_vars

\* cancelPending has dropped two files whose flush was scheduled one tick
\* earlier and was due now.
C11_Witness ==
    /\ ev.op = "cancelPending"
    /\ ev.fl.win = Files
    /\ ev.sched.at = 0
    /\ ev.sched.min = TickStep
    /\ now = TickStep
    /\ pendingFiles = <<>>
    /\ timers = {}

\* C12: resetQueue leaves the pending set and the fingerprint map empty,
\* the last-dispatch timestamp 0, minIntervalMs 30000, the three callbacks
\* unset and no timer live, and invokes nothing; the flush that was
\* scheduled never runs: a flush that begins, and every callback of a flush
\* begun since the reset, is for files enqueued after the reset.
C12_ResetCancelsScheduledFlush ==
    [][/\ (ev'.op = "resetQueue")
          => /\ pendingFiles' = <<>>
             /\ reviewedDiffHash' = [f \in Files |-> Undefined]
             /\ lastReviewAt' = 0
             /\ minIntervalMs' = DefaultMinIntervalMs
             /\ ~onBatchReady' /\ ~onCountdown' /\ ~onBatchEmpty'
             /\ timers' = {} /\ intervals' = {}
             /\ flushTimer' = NoHandle /\ countdownInterval' = NoHandle
             /\ ev'.called = {} /\ ev'.cd = NoTime
       /\ FlushBegins => (pendingFiles # <<>> /\ Range(pendingFiles) \subseteq enqueued)
       /\ (FlushStep /\ ~ev'.fl.stale /\ ev'.called # {})
             => (ev'.fl.win # {} /\ Range(ev'.fl.cands) \subseteq ev'.fl.win)]_vars

\* resetQueue has dropped a file one tick after its flush was scheduled two
\* ticks ahead.
C12_Witness ==
    /\ ev.op = "resetQueue"
    /\ ev.fl.win # {}
    /\ ev.sched.at = 0 /\ ev.sched.L = 0 /\ ev.sched.min = 2 * TickStep
    /\ now = TickStep
    /\ timers = {}
    /\ intervals = {}

\* C13 as stated, in a run whose flushes never overlapped: a file
\* dispatched with diff D before resetQueue is pushed by the first flush
\* begun after the reset that reads the same diff D for it, and with the
\* callback registered again the flush hands its batch to batch-ready when
\* it ends.
C13_SameDiffDispatchedAfterReset ==
    [][(/\ FlushStep
        /\ ~ev'.fl.stale
        /\ serial
        /\ onBatchReady
        /\ ev'.out.kind = "str"
        /\ ev'.out = priorDispatch[ev'.file])
       => /\ Pushed
          /\ ev'.done => ev'.called = {"ready"}]_vars

\* C14: cancelPending leaves the fingerprint map, minIntervalMs, the
\* last-dispatch timestamp and the registered callbacks as they are, and a
\* file last dispatched with diff D before a cancelPending is not pushed by
\* a flush begun after that cancelPending that reads the same diff D for it.
C14_CancelKeepsFingerprints ==
    [][/\ (ev'.op = "cancelPending")
          => /\ reviewedDiffHash' = reviewedDiffHash
             /\ minIntervalMs' = minIntervalMs
             /\ lastReviewAt' = lastReviewAt
             /\ onBatchReady' = onBatchReady
             /\ onCountdown' = onCountdown
             /\ onBatchEmpty' = onBatchEmpty
       /\ (/\ FlushStep
           /\ ev'.file \in cancelledAfter \cap ev'.fl.cancelled
           /\ ev'.out = dispatched[ev'.file])
          => ~Pushed]_vars

---------------------------------------------------------------------------
(* The countdown *)

\* enqueueFile schedules a flush.
Schedules == ev'.op = "enqueueFile" /\ flushTimer = NoHandle

\* How far ahead the step schedules it: the delay of the new flush timer.
ScheduledDelay == (CHOOSE t \in timers' : t.id = flushTimer').due - now

CountdownTick == ev'.op = "countdownTick" /\ ev'.cd # NoTime

RemainingInterval == Max(0, minIntervalMs - (now - lastReviewAt))

CountdownStopped == sched.cd = NoTime

---------------------------------------------------------------------------
(* The end-to-end scenario, minIntervalMs = 1000 *)

\* The flush timer fires for the flush that was scheduled at time at, with
\* the flush before it started at time L and an interval of 1000 ms.
ScenarioFlushStarts(at, L) ==
    /\ ev'.op = "flushTimer"
    /\ sched.at = at /\ sched.L = L /\ sched.min = 1000

\* A flush ends at the instant it started, every diff being there at once.
EndsAtOnce == FlushEnded' /\ serial' /\ now = lastReviewAt

\* The flush of a.ts and b.ts, both enqueued at t = 0, starts.
FirstFlushStarts == ScenarioFlushStarts(0, 0) /\ enqueued = Files

\* The first flush of the session ends, with batch-ready registered: no
\* flush can start before t = 1000, so every diff it finds is novel.
FirstFlushEnds ==
    /\ EndsAtOnce /\ now = 1000
    /\ ev'.fl.win = Files
    /\ onBatchReady

\* The flush of a.ts alone, enqueued again at t = 1001 after batch-ready was
\* called with both files at t = 1000, starts.
SecondFlushStarts ==
    /\ ScenarioFlushStarts(1001, 1000)
    /\ lastReadyAt = 1000 /\ flights = <<>>
    /\ \A f \in Files : dispatched[f] # NoDiff
    /\ pendingFiles = <<"a.ts">>

\* It ends, the diff of a.ts being the one it was dispatched with, with
\* batch-empty registered.
SecondFlushEnds ==
    /\ EndsAtOnce /\ lastReadyAt = 1000
    /\ ev'.fl.cands = <<"a.ts">>
    /\ dispatched["a.ts"] # NoDiff /\ ev'.out = dispatched["a.ts"]
    /\ onBatchEmpty

ScenarioFirstBatch ==
    /\ FirstFlushStarts => now = 1000
    /\ FirstFlushEnds => (ev'.called = {"ready"} /\ Range(Batch') = Files)
    /\ SecondFlushEnds => ev'.called = {"empty"}

\* C18 as stated: batch-ready is called at t = 1000 with exactly
\* {a.ts, b.ts}, and the flush for a.ts re-enqueued at t = 1001 runs, and
\* calls batch-empty, at t = 2001 and not before.
C18_RenewedFullInterval ==
    [][/\ ScenarioFirstBatch
       /\ SecondFlushStarts => now = 2001]_vars

\* C18 amended: batch-ready is called at t = 1000 with exactly
\* {a.ts, b.ts}, and the flush for a.ts re-enqueued at t = 1001 is scheduled
\* 999 ms ahead, runs, and calls batch-empty, at t = 2000, one interval after
\* the flush at t = 1000 started, and not before.
C18_IntervalSincePreviousFlush ==
    [][/\ ScenarioFirstBatch
       /\ (Schedules /\ now = 1001 /\ lastReviewAt = 1000
              /\ minIntervalMs = 1000)
            => ScheduledDelay = 999
       /\ SecondFlushStarts => now = 2000]_vars

\* The flush of a.ts, enqueued again after batch-ready was called with both
\* files at t = 1000, ends at t = 2000 with batch-empty.
C18_Witness ==
    /\ ev.op = "diffSettles" /\ ev.done /\ ev.called = {"empty"}
    /\ ev.fl.cands = <<"a.ts">> /\ ev.out = dispatched["a.ts"]
    /\ dispatched["b.ts"] # NoDiff
    /\ lastReadyAt = 1000 /\ prevFlushAt = 2000 /\ now = 2000
    /\ serial

---------------------------------------------------------------------------
(* The agent loop *)

HasToolCall(r) == \E k \in 1..Len(r) : r[k].kind = "tool"

\* Every response of the model so far held at least one tool call.
AlwaysToolCalls == \A k \in 1..Len(responses) : HasToolCall(responses[k])

LoopEnded == pc \in {"returned", "threw"}

\* C19 as stated, its safety part: at most 10 model requests are sent, and
\* a review in which every model response held a tool call has sent exactly
\* 10 requests when it returns, and returns the empty list.
C19_TenRequestsWhenNeverFinal ==
    /\ sendRequests <= 10
    /\ (pc = "returned" /\ responses # <<>> /\ AlwaysToolCalls)
         => (sendRequests = 10 /\ returned = <<>>)

\* C19 amended: the loop ends once started, every awaited call settling; at
\* most 10 model requests are sent; it throws only when a model request
\* fails; and a review in which every model response held a tool call and
\* cancellation was never requested has sent exactly 10 requests when it
\* returns, and returns the empty list.
C19_EndsWithinTenRequests ==
    /\ [](sendRequests <= 10)
    /\ []((pc = "threw") => (\/ Len(responses) < sendRequests
                             \/ Len(toolResults) < toolIndex))
    /\ []((pc = "returned" /\ AlwaysToolCalls
            /\ ~cancelToken.isCancellationRequested)
           => (sendRequests = 10 /\ Len(responses) = 10 /\ returned = <<>>))
    /\ ((pc # "idle") ~> LoopEnded)

\* Ten responses with tool calls, no cancellation: the loop returned.
C19_Witness ==
    /\ pc = "returned"
    /\ Len(responses) = 10 /\ AlwaysToolCalls
    /\ ~cancelToken.isCancellationRequested
    /\ sendRequests = 10 /\ iteration = 10 /\ returned = <<>>

\* The model answers a request with the stream r.
Answers(r) == responses' = Append(responses, r)

\* The text of the text fragments of r, in the order they arrived
RECURSIVE ArrivalText(_)
ArrivalText(r) ==
    IF r = <<>> THEN <<>>
    ELSE (IF Head(r).kind = "text" THEN Head(r).value ELSE <<>>)
         \o ArrivalText(Tail(r))

\* The tool calls the streams rs ask for, in order
RECURSIVE Requested(_)
Requested(rs) ==
    IF rs = <<>> THEN <<>>
    ELSE [k \in 1..Len(SelectSeq(Head(rs), LAMBDA c : c.kind = "tool")) |->
             LET call == SelectSeq(Head(rs), LAMBDA c : c.kind = "tool")[k]
             IN  [name |-> call.name, input |-> call.input]]
         \o Requested(Tail(rs))

\* C20: a response with no tool call ends the loop, which returns
\* parseResponse of its text fragments concatenated in arrival order, and
\* after the loop has ended no model request is sent and no tool executed.
\* When the model answers with one tool call and then with JSON, the loop
\* returns the issues of that JSON after exactly two model requests and
\* exactly one tool execution, with the name and the input that were asked
\* for.
C20_NoToolCallIsTerminal ==
    [][/\ \A r \in Responses :
            (Answers(r) /\ ~HasToolCall(r))
            => /\ pc' = "returned"
               /\ returned' = parseResponse(ArrivalText(r))
               /\ sendRequests' = sendRequests
               /\ executed' = executed
               /\ executed' = Requested(responses)
               /\ sendRequests' = Len(responses')
       /\ Answers(DirectJson)
            => /\ Len(returned') = 2
               /\ returned'[1].tier = "high" /\ returned'[2].tier = "medium"
       /\ LoopEnded
            => UNCHANGED <<pc, returned, sendRequests, executed, messages>>
       /\ (pc' = "returned" /\ responses' = <<OneToolCall, DirectJson>>)
            => /\ sendRequests' = 2
               /\ executed' = <<[name |-> "readFile",
                                 input |-> Input("src/utils.ts", Missing,
                                                 Missing)]>>
               /\ Len(returned') = 2]_vars

\* One tool call, then JSON: the loop returned its two issues.
C20_Witness ==
    /\ pc = "returned"
    /\ responses = <<OneToolCall, DirectJson>>
    /\ sendRequests = 2 /\ Len(executed) = 1
    /\ Len(returned) = 2 /\ returned[1].tier = "high"

\* An iteration is about to start: the prompt is being built, or the last
\* tool of an iteration is running.
IterationAboutToStart ==
    \/ pc = "buildSystemPrompt"
    \/ pc = "executeToolCall" /\ toolIndex = Len(toolCallParts)

\* The loop itself takes the step, not the holder of the token, and the
\* call it awaited did not reject.
LoopSteps == cancelToken' = cancelToken /\ pc # "idle" /\ pc' # "threw"

---------------------------------------------------------------------------
(* The workspace tools *)

\* The operation the tool call of the state relies on rejects.
OperationFails ==
    \/ tool.name = "readFile" /\ ~tool.workspace.readFile
    \/ tool.name = "searchCode" /\ ~tool.workspace.findFiles
    \/ tool.name = "listDirectory" /\ ~tool.workspace.readDirectory

\* The argument the tool cannot work without is absent.
ArgumentMissing ==
    \/ tool.name = "readFile" /\ tool.input.path = Missing
    \/ tool.name = "searchCode" /\ tool.input.query = Missing

IsErrorString(value) ==
    value[1] \in {"Error: no workspace open", "Error: path is required",
                  "Error: query is required", "Error reading '",
                  "Error listing '"}

\* C24: executeToolCall resolves for every tool name, input and workspace:
\* with an Unknown tool string for a name it does not know, with an error
\* string when the argument it needs is missing, and with an error string
\* when the workspace operation it relies on fails.
C24_ToolCallAlwaysResolves ==
    tool.called =>
        /\ tool.out.settled = "resolved"
        /\ tool.name \notin KnownTools
             => tool.out.value = <<"Unknown tool: ", tool.name>>
        /\ (tool.name \in KnownTools /\ ArgumentMissing)
             => IsErrorString(tool.out.value)
        /\ (tool.name \in KnownTools /\ OperationFails)
             => IsErrorString(tool.out.value)

---------------------------------------------------------------------------
(* reviewFile *)

\* callLLM has chosen a model, or has found none.
ModelChosen == review.model # NoModel
NoModelAvailable ==
    Len(review.offered) = 2 /\ review.offered[1] = <<>>
                            /\ review.offered[2] = <<>>

C22_WitnessNoModel ==
    /\ NoModelAvailable
    /\ review.pc = "threw" /\ review.error = NoModelsError

\* C23: a single-file review rejects only when no language model is
\* available.
C23_RejectsOnlyWithoutModel ==
    review.pc = "threw" => (NoModelAvailable /\ review.error = NoModelsError)

\* C30: reviewFile returns the issues of the agent loop, each with its file
\* set to the path under review, and a review whose diff is empty or null
\* returns no issue without selecting a model or sending a request.
C30_FileIsReviewedPath ==
    /\ review.pc = "returned"
         => /\ Len(review.issues) = Len(returned)
            /\ \A k \in 1..Len(review.issues) :
                  /\ review.issues[k].file = review.filePath
                  /\ review.issues[k].tier = returned[k].tier
                  /\ review.issues[k].line = returned[k].line
                  /\ review.issues[k].title = returned[k].title
                  /\ review.issues[k].explanation = returned[k].explanation
    /\ (review.pc = "returned" /\ pc = "idle")
         => /\ review.issues = <<>>
            /\ review.offered = <<>> /\ ~ModelChosen
            /\ sendRequests = 0
    /\ (review.pc = "returned" /\ review.offered = <<>>) => pc = "idle"

\* The model named another file in one issue and none in the other: the
\* review returned both with the path under review.
C30_Witness ==
    /\ review.pc = "returned" /\ Len(review.issues) = 2
    /\ returned[1].file = "src/auth.ts" /\ returned[2].file = ""
    /\ review.issues[1].file = "src/changed.ts"
    /\ review.issues[2].file = "src/changed.ts"

\* The diff was empty: the review returned at once.
C30_WitnessNoDiff ==
    /\ review.pc = "returned" /\ pc = "idle" /\ review.issues = <<>>

---------------------------------------------------------------------------
(* The conversation of the agent loop *)

TextsOf(r) == SelectSeq(r, LAMBDA c : c.kind = "text")
ToolsOf(r) == SelectSeq(r, LAMBDA c : c.kind = "tool")

\* The responses so far that asked for tools, and how many of their
\* iterations are complete: the last one is not while its tools run, or
\* when one of its tools rejected.
ToolResponses == SelectSeq(responses, HasToolCall)
Completed ==
    IF pc = "executeToolCall" \/ (pc = "threw" /\ Len(toolResults) < toolIndex)
    THEN Len(ToolResponses) - 1 ELSE Len(ToolResponses)

\* The conversation is the two opening messages, then for each response
\* with tool calls one assistant message (its text parts, then its tool
\* calls in the order issued) and, once its tools are through, one user
\* message with one result per call, in order, under the callId of the call.
Conversation ==
    /\ Len(messages) = 2 + Len(ToolResponses) + Completed
    /\ messages[1] = User(<<"systemPrompt">>)
    /\ messages[2] = User(<<"userPrompt">>)
    /\ \A i \in 1..Len(ToolResponses) :
          LET r == ToolResponses[i]
          IN  /\ messages[2 * i + 1] = Assistant(TextsOf(r) \o ToolsOf(r))
              /\ i <= Completed =>
                    /\ messages[2 * i + 2].role = "user"
                    /\ Len(messages[2 * i + 2].content) = Len(ToolsOf(r))
                    /\ \A j \in 1..Len(ToolsOf(r)) :
                          messages[2 * i + 2].content[j].callId
                              = ToolsOf(r)[j].callId

\* C25: an iteration with n >= 1 tool calls appends one assistant message,
\* runs the n tools one at a time in the order asked, then appends one user
\* message with the n results under their callIds, and only then is the
\* next request sent; so the conversation is the two opening messages and
\* one (assistant, results) pair per such iteration, and no message already
\* in it is changed or removed.
C25_ConversationShape ==
    [][/\ (pc' \notin {"idle", "buildSystemPrompt"}) => Conversation'
       /\ SubSeq(messages', 1, Len(messages)) = messages
       /\ (pc' = "executeToolCall" /\ LoopSteps)
            => /\ Len(executed') = Len(executed) + 1
               /\ Len(executed') = Len(Requested(ToolResponses'))
                                      - Len(toolCallParts') + Len(toolResults') + 1
               /\ executed'[Len(executed')]
                     = ToolCall(toolCallParts'[Len(toolResults') + 1])
       /\ sendRequests' # sendRequests
            => /\ Len(messages') = 2 + 2 * Len(ToolResponses')
               /\ executed' = Requested(responses')
               /\ pc = "executeToolCall" =>
                     Len(toolResults') = Len(toolCallParts)]_vars

\* Two iterations with tool calls, of two calls and of one: the
\* conversation holds six messages and the third request is out.
C25_Witness ==
    /\ pc = "sendRequest" /\ sendRequests = 3
    /\ responses = <<TwoToolCalls, OneToolCall>>
    /\ Len(messages) = 6
    /\ messages[3].role = "assistant" /\ Len(messages[3].content) = 3
    /\ messages[3].content[1].kind = "text"
    /\ Len(messages[4].content) = 2
    /\ messages[4].content[2].callId = "call-b"
    /\ Len(messages[6].content) = 1

---------------------------------------------------------------------------
(* parseResponse *)

Text == parseCall.responseText
Out == parseCall.out

\* The call was given JSON.stringify of a list of objects none of whose
\* strings holds a code fence, bare or wrapped.
FromList == parseCall.wrap # "none"
NoFenceInside == \A k \in 1..Len(parseCall.list) :
                    parseCall.list[k] \notin {"F", "G"}

\* The text holds no "[" with a "]" after it.
NoSpan(t) == ~\E i \in 1..Len(t) : \E j \in i + 1..Len(t) :
                 t[i] = "[" /\ t[j] = "]"

\* A text without fences whose span from the first "[" to the last "]" is
\* not JSON: it holds other text, an array that starts or ends with a
\* comma, or two values with no comma between them.
BrokenSpan(t) ==
    /\ ~NoSpan(t)
    /\ \A k \in 1..Len(t) : t[k] # "~"
    /\ LET span == SubSeq(t, IndexOf(t, "[", 1), LastIndexOf(t, "]"))
           u == SelectSeq(span, LAMBDA c : c # " ")
       IN  \/ \E k \in 1..Len(u) : u[k] \in {"x", "j"}
           \/ \E k \in 1..Len(u) - 1 :
                  \/ u[k] = "[" /\ u[k + 1] = ","
                  \/ u[k] = "," /\ u[k + 1] \in {"]", ","}
                  \/ u[k] \in {"H", "]"} /\ u[k + 1] \in {"H", "["}

\* C26: parseResponse returns a list for every text, and the empty list
\* when the text holds no "[" ... "]" span, when the span is not JSON, for
\* "[]", for the empty text and for white space alone.
C26_EmptyOnUnparsable ==
    parseCall.called =>
        /\ \A k \in 1..Len(Out) : Out[k].tier \in {"high", "medium", "low"}
        /\ NoSpan(Text) => Out = <<>>
        /\ BrokenSpan(Text) => Out = <<>>
        /\ Text = <<"[", "]">> => Out = <<>>
        /\ Text = <<>> => Out = <<>>
        /\ (\A k \in 1..Len(Text) : Text[k] = " ") => Out = <<>>

\* An array with an object and other text in it: nothing is returned.
C26_Witness ==
    /\ parseCall.called
    /\ Text = <<"[", "H", "x", "]">>
    /\ Out = <<>>

\* The shape of an issue, for the object literal c
HasIssueShape(c) ==
    /\ ObjectValue[c].tier = JsonString("high")
         \/ ObjectValue[c].tier = JsonString("medium")
         \/ ObjectValue[c].tier = JsonString("low")
    /\ ObjectValue[c].line.type = "number"
    /\ ObjectValue[c].title.type = "string"
    /\ ObjectValue[c].explanation.type = "string"

\* The first characters of a string, at most max of them
Prefix(t, max) == SubSeq(t, 1, IF Len(t) < max THEN Len(t) ELSE max)

\* C27: of the elements of the decoded array, parseResponse returns those
\* that have the shape of an issue, in their order, and drops the others.
C27_KeepsWellShaped ==
    (parseCall.called /\ FromList /\ NoFenceInside) =>
        LET kept == SelectSeq(parseCall.list, HasIssueShape)
        IN  /\ Len(Out) = Len(kept)
            /\ \A k \in 1..Len(kept) :
                  /\ Out[k].tier = ObjectValue[kept[k]].tier.v
                  /\ Out[k].title = Prefix(ObjectValue[kept[k]].title.v, 80)
                  /\ Out[k].explanation
                       = Prefix(ObjectValue[kept[k]].explanation.v, 500)

\* An object with another tier and then an issue, in a json fence: the
\* issue alone is returned.
C27_Witness ==
    /\ parseCall.called
    /\ parseCall.list = <<"B", "H">> /\ parseCall.wrap = "json fence"
    /\ Len(Out) = 1 /\ Out[1].tier = "high" /\ Out[1].line = 3

\* A whole number
IsInteger(n) == n \in Int /\ n # Infinity

\* C28: every issue that parseResponse returns has an integer line >= 1,
\* which is the line of the input rounded and then raised to 1, a title of
\* at most 80 characters, an explanation of at most 500, the tier of the
\* input, and the file of the input when that is a string and "" otherwise.
C28_NormalizedIssues ==
    parseCall.called =>
        /\ \A k \in 1..Len(Out) :
              /\ IsInteger(Out[k].line) /\ Out[k].line >= 1
              /\ Len(Out[k].title) <= 80
              /\ Len(Out[k].explanation) <= 500
        /\ (FromList /\ NoFenceInside) =>
              LET kept == SelectSeq(parseCall.list, HasIssueShape)
              IN  \A k \in 1..Len(Out) :
                    LET in == ObjectValue[kept[k]]
                    IN  /\ Out[k].tier = in.tier.v
                        /\ Out[k].file = IF in.file.type = "string"
                                         THEN in.file.v ELSE ""
                        /\ in.line.v # Infinity =>
                              Out[k].line
                                = (IF in.line.v + 5 < 10 THEN 1
                                   ELSE (in.line.v + 5) \div 10)

\* A valid issue with a whole line number from 1 on and a string for file
RoundTrips(c) ==
    /\ HasIssueShape(c)
    /\ ObjectValue[c].file.type = "string"
    /\ ObjectValue[c].line.v # Infinity
    /\ ObjectValue[c].line.v >= 10 /\ ObjectValue[c].line.v % 10 = 0

\* C29: parseResponse of JSON.stringify of a list of valid issues returns
\* as many issues, in the same order, with the tier, file and line of the
\* originals and their title and explanation cut to 80 and 500 characters.
C29_RoundTrip ==
    (/\ parseCall.called /\ parseCall.wrap = "bare"
     /\ \A k \in 1..Len(parseCall.list) : RoundTrips(parseCall.list[k]))
    => /\ Len(Out) = Len(parseCall.list)
       /\ \A k \in 1..Len(Out) :
             LET in == ObjectValue[parseCall.list[k]]
             IN  /\ Out[k].tier = in.tier.v
                 /\ Out[k].file = in.file.v
                 /\ Out[k].line * 10 = in.line.v
                 /\ Out[k].title = Prefix(in.title.v, 80)
                 /\ Out[k].explanation = Prefix(in.explanation.v, 500)

---------------------------------------------------------------------------
(* Sessions of the queue and its timers *)

\* A step of a flush that took its snapshot before a resetQueue
StaleFlushStep == FlushStep /\ ev'.fl.stale

\* C35: a flush that took its snapshot before resetQueue writes no entry
\* into the fingerprint map after the reset and invokes no batch-ready or
\* batch-empty callback registered after it (resetQueue unregisters every
\* callback, so whatever such a flush invokes was registered after it).
C35_ResetIsolatesFlushInFlight ==
    [][StaleFlushStep
       => /\ reviewedDiffHash' = reviewedDiffHash
          /\ ev'.called = {}]_vars

\* A flush timer is scheduled, and the countdown tickers that are live
FlushTimerScheduled == timers # {}
LiveTickers == intervals

\* C39: between the operations of the queue a flush timer is scheduled
\* exactly when files are pending, a countdown ticker is live only while a
\* flush timer is scheduled, and at most one ticker is live.
C39_TimersFollowPending ==
    /\ FlushTimerScheduled <=> pendingFiles # <<>>
    /\ FlushTimerScheduled <=> flushTimer # NoHandle
    /\ LiveTickers # {} => FlushTimerScheduled
    /\ Cardinality(LiveTickers) <= 1
    /\ Cardinality(timers) <= 1

\* Files are enqueued again after a cancelPending or a resetQueue emptied
\* the queue, and the ticker of the new flush timer has ticked.
C39_Witness ==
    /\ ev.op = "countdownTick"
    /\ Cardinality(LiveTickers) = 1
    /\ FlushTimerScheduled
    /\ Len(pendingFiles) = 1
    /\ nEnqueued = 2

---------------------------------------------------------------------------
(* The file watcher *)

\* The debounce timer of a file fires
DebounceFired == wev'.op = "debounceFires"

RecentChanges ==
    {k \in 1..Len(forwarded) : forwarded[k].at >= now - heuristicWindowMs}

C33_WitnessDiscarded ==
    /\ wev.op = "debounceFires"
    /\ ~wev.armed
    /\ onHeuristicArmCallback
    /\ heuristicThreshold = DefaultHeuristicThreshold
    /\ Len(forwarded) = 3

\* The files of the changes counted at this step
RecentFiles == {forwarded[k].file : k \in RecentChanges} \cup {wev'.file}

\* C34: under the defaults the heuristic callback is called only when three
\* or more distinct files changed within the last ten seconds.
C34_CountsDistinctFiles ==
    [][(/\ wev'.armed
        /\ heuristicThreshold = 3
        /\ heuristicWindowMs = 10000)
       => Cardinality(RecentFiles) >= 3]_vars

---------------------------------------------------------------------------
(* The sweep of reviewFiles                                                *)

RECURSIVE Accumulated(_)
\* The issues of the reviews that returned, in the order of the reviews
Accumulated(results) ==
    IF results = <<>> THEN <<>>
    ELSE Accumulated(SubSeq(results, 1, Len(results) - 1))
             \o results[Len(results)].issues

\* The files whose review returned, in the order of the reviews
Succeeded(results) == SelectSeq(results, LAMBDA r : r.ok)

\* The results up to and including the k-th review that returned
UpToSuccess(results, k) ==
    LET at == CHOOSE i \in 1..Len(results) :
                  /\ results[i].ok
                  /\ Len(Succeeded(SubSeq(results, 1, i))) = k
    IN  SubSeq(results, 1, at)

\* A sweep is in order: the reviews it started are the first files of
\* filePaths, one per turn of the loop.
SweepInOrder ==
    /\ Len(sweep.started) <= Len(sweep.filePaths)
    /\ sweep.started = SubSeq(sweep.filePaths, 1, Len(sweep.started))
    /\ sweep.pc = "reviewFile" =>
           /\ Len(sweep.started) = sweep.index
           /\ Len(sweep.results) = sweep.index - 1
           /\ review.filePath = sweep.filePaths[sweep.index]
    /\ sweep.pc = "returned" => Len(sweep.results) = Len(sweep.started)

\* onProgress was called once after each review that returned, with the
\* issues accumulated up to that review, and never when it was not given.
ProgressFollowsSuccess ==
    LET ok == Succeeded(sweep.results)
    IN  IF sweep.onProgress
        THEN /\ Len(sweep.progress) = Len(ok)
             /\ \A k \in 1..Len(ok) :
                    /\ sweep.progress[k].file = ok[k].file
                    /\ sweep.progress[k].issues =
                           Accumulated(UpToSuccess(sweep.results, k))
        ELSE sweep.progress = <<>>

\* A sweep ends by returning: with every file reviewed unless cancellation
\* was requested, with every error logged, and with the issues of the
\* reviews that returned, in order.
SweepReturns ==
    /\ sweep.pc # "threw"
    /\ Len(sweep.logged) = Len(sweep.results) - Len(Succeeded(sweep.results))
    /\ sweep.allIssues = Accumulated(sweep.results)
    /\ sweep.pc = "returned" =>
           /\ sweep.returned = Accumulated(sweep.results)
           /\ ~SweepCancelled(sweep.token) => sweep.started = sweep.filePaths

\* C31: reviewFiles reviews the files one after another in the order
\* given; it starts the review of a file only while cancellation is not
\* requested; an error of one review is logged and neither ends the sweep
\* nor rejects it; onProgress is called once after each review that
\* returned, with the issues accumulated so far; and the call returns the
\* issues of the reviews that returned, concatenated in order.
C31_SweepInOrderToTheEnd ==
    [][/\ sweep'.started # sweep.started => ~SweepCancelled(sweep'.token)
       /\ SweepInOrder'
       /\ ProgressFollowsSuccess'
       /\ SweepReturns']_vars

\* A sweep over two files returned after the review of the first threw and
\* the review of the second returned issues, which onProgress was given.
C31_Witness ==
    /\ sweep.pc = "returned"
    /\ Len(sweep.filePaths) = 2
    /\ sweep.logged = <<sweep.filePaths[1]>>
    /\ sweep.returned # <<>>
    /\ Len(sweep.progress) = 1

\* A sweep over two files returned after the first review alone, for
\* cancellation was requested during it.
C31_WitnessCancelled ==
    /\ sweep.pc = "returned"
    /\ Len(sweep.filePaths) = 2
    /\ sweep.started = <<sweep.filePaths[1]>>
    /\ SweepCancelled(sweep.token)

\* Both reviews of a sweep returned issues
C31_WitnessConcatenated ==
    /\ sweep.pc = "returned"
    /\ Len(sweep.results) = 2
    /\ \A k \in 1..2 : sweep.results[k].ok /\ sweep.results[k].issues # <<>>

---------------------------------------------------------------------------
(* The sessions of the file watcher under arm and disarm                   *)

\* C40: at most one file-watcher session is live at any time: when arm
\* calls startWatching every session started before is disposed, whether
\* arm runs while armed, after clearReview left the watcher running, or
\* overlapping another arm; and after disarm no listener of any session is
\* registered.
C40_OneWatcherSession ==
    /\ Cardinality(listeners) <= 1
    /\ xev.op = "armInstructionsLoaded" => xev.live = {}
    /\ xev.op = "disarm" => listeners = {}

\* disarm ran and the listeners of a session are still registered
C40_ListenersAfterDisarm == xev.op = "disarm" /\ listeners # {}

---------------------------------------------------------------------------
(* The handlers of the batches                                             *)

\* The handlers whose reviewFile call is in progress
InProgress == {k \in 1..Len(handlers) : handlers[k].pc = "reviewFile"}

\* The reviews handler k started after a newer handler had started
StartedLate(k) ==
    {j \in 1..Len(handlers[k].started) : handlers[k].started[j].newer}

\* C36: batch reviews do not overlap: at most one reviewFile call started
\* by handleBatchReady is in progress at any time, and once the handler of
\* a newer batch has started, the handler of an older batch starts no
\* further file review.
C36_BatchReviewsDoNotOverlap ==
    /\ Cardinality(InProgress) <= 1
    /\ \A k \in 1..Len(handlers) : StartedLate(k) = {}

\* The handler of the first batch started the review of its second file
\* after the handler of the second batch had started, with the token of
\* the second handler
C36_OlderHandlerGoesOn ==
    /\ Len(handlers) = 2
    /\ StartedLate(1) # {}
    /\ handlers[1].token = handlers[2].source
    /\ InProgress = {1, 2}

\* disarm, clearReview or arm cancelled a review
Intervened ==
    \E i \in 1..Len(tokenSources) :
        tokenSources[i].by \in {"disarm", "clearReview", "arm"}

\* The files of the batches after that of handler k
LaterFiles(k) ==
    UNION {{handlers[n].filePaths[i] : i \in 1..Len(handlers[n].filePaths)} :
               n \in (k + 1)..Len(handlers)}

\* The addFileIssues calls of handler k for a review that ended at the
\* cancellation check of its agent loop because a later batch arrived, of
\* a file no later batch holds
CutByBatch(k) ==
    {j \in 1..Len(handlers[k].added) :
        /\ handlers[k].added[j].cut
        /\ tokenSources[handlers[k].added[j].token].by = "batch"
        /\ handlers[k].added[j].file \notin LaterFiles(k)}

\* C37: no dispatched file silently loses its review: unless disarm,
\* clearReview or arm intervenes, the review of every file of a batch runs
\* to a final answer of the model or to the iteration ceiling and its
\* result is passed to addFileIssues; the arrival of a later batch does not
\* cut the review short with an empty result, and does not skip it.
C37_NoReviewLostToLaterBatch ==
    \A k \in 1..Len(handlers) :
        /\ CutByBatch(k) = {}
        /\ handlers[k].pc = "done" /\ ~Intervened =>
               Len(handlers[k].added) = Len(handlers[k].filePaths)

\* A step of a handler that was awaiting its review
HandlerResumes ==
    xev'.op \in {"reviewLoop", "reviewReturns", "reviewRejects"}

\* C38: after disarm or clearReview set the status to 'idle' and cleared
\* the surface, and until the next arm, the status stays 'idle' and no
\* issues are added to the surface: a handler that was awaiting a review
\* when disarm or clearReview ran changes neither afterwards.
C38_IdleStaysIdle ==
    [][statusBarState = "idle" /\ ArmsInFlight = 0 /\ HandlerResumes =>
           statusBarState' = "idle" /\ surface' = surface]_vars

\* After clearReview a handler handed the issues of its review to the
\* surface and set the status to 'issues'
C38_IssuesAfterClear ==
    /\ xev.op = "reviewReturns"
    /\ statusBarState = "issues"
    /\ reviewCancellation = NoSource
    /\ \E i \in 1..Len(tokenSources) : tokenSources[i].by = "clearReview"
    /\ Len(handlers) = 1

====
